---- MODULE Spec2Model ----
(***************************************************************************)
(* Model of the Workspace GUI test client (Tools/uitest/python/uitest.py): *)
(* the test runner run_tests, the command proxy _run_command, the JSON     *)
(* extractor _extract_json and the query helpers built on them.            *)
(***************************************************************************)
EXTENDS Integers, Sequences, FiniteSets, TLC

\* ------------------------------------------------------------------------
\* Bounds of the model
\* ------------------------------------------------------------------------
MaxTests == 3
MaxPreamble == 2
MaxWindows == 2
MaxMenus == 2

\* ------------------------------------------------------------------------
\* State
\* ------------------------------------------------------------------------
VARIABLES
    \* --- run_tests ---
    tests,              \* what each test callable does when invoked, in order
    stop_on_failure,    \* keyword argument
    highlight_failures, \* keyword argument
    has_client,         \* whether a client was supplied
    rpc,                \* position in run_tests: "start", "loop", "summary", "done"
    idx,                \* index of the next test of the for loop
    results,            \* the local list `results`
    invoked,            \* indices of the callables invoked so far, in order
    hl_last,            \* what the last best-effort highlight attempt did
    ret,                \* return value of run_tests (NoValue before it returns)
    \* --- the client ---
    last_json,          \* self._last_json_response
    env,                \* what the bridge did when the last operation ran it
    call,               \* the operation last called on the client, with its arguments
    out,                \* how that operation ended: the value returned or the error raised
    good,               \* history: the document of the most recent successful extraction
    \* --- polling waits ---
    now,                \* time.time(), in tenths of a second
    wait,               \* the polling wait in progress: its arguments, locals and position
    \* --- UserInput ---
    mouse,              \* move_mouse_smoothly in progress, and the mousemove commands it ran
    \* --- helpers that run step by step ---
    proc                \* the helper call in progress: its arguments, locals, position,
                        \* and the commands it has run

runnerVars == <<tests, stop_on_failure, highlight_failures, has_client, rpc, idx,
                results, invoked, hl_last, ret>>

clientVars == <<last_json, env, call, out, good>>

waitVars == <<now, wait>>

\* What neither run_tests nor a client operation touches.
otherVars == <<waitVars, mouse, proc>>

\* What a step of a helper call leaves alone.
notProc == <<runnerVars, clientVars, waitVars, mouse>>

vars == <<runnerVars, clientVars, otherVars>>

NoValue == "no value"

\* Sequences over S of length at most n.
SeqsUpTo(S, n) == UNION {[1..k -> S] : k \in 0..n}

\* ------------------------------------------------------------------------
\* run_tests (uitest.py 1231-1357)
\* ------------------------------------------------------------------------

\* What a test callable can do: return one of several values, raise
\* AssertionFailedError, or raise another Exception.
ReturnOutcomes == {"True", "None", "Dict", "Zero", "False"}
RaiseOutcomes == {"AssertionFailedError", "Exception"}
Outcomes == ReturnOutcomes \cup RaiseOutcomes

\* What the best-effort highlight of the AssertionFailedError handler can do.
HighlightOutcomes ==
    {"no quote in message", "query raised", "no titled window",
     "highlight raised", "highlighted"}

\* `result is False`: identity with the False singleton; 0, None, {} are not it.
IsFalseWrongEquality(o) == o \in {"False", "Zero"}
IsFalse(o) == o = "False"

\* all(results)
AllTrue(rs) == \A k \in 1..Len(rs) : rs[k]

\* `return 0 if all(results) else 1`
ExitStatusLastOnly(rs) == IF rs = <<>> \/ rs[Len(rs)] THEN 0 ELSE 1
ExitStatus(rs) == IF AllTrue(rs) THEN 0 ELSE 1

\* After a recorded failure: `if stop_on_failure: break`, else the for loop
\* goes on to the next test; after a pass the for loop always goes on.
AfterFailureNeverBreak(stop, i, n) == IF i < n THEN "loop" ELSE "summary"
AfterFailure(stop, i, n) == IF stop \/ i >= n THEN "summary" ELSE "loop"
AfterPass(i, n) == IF i < n THEN "loop" ELSE "summary"

\* `if not tests: return 0`
RunTestsEmpty ==
    /\ rpc = "start"
    /\ tests = <<>>
    /\ rpc' = "done"
    /\ ret' = 0
    /\ UNCHANGED <<tests, stop_on_failure, highlight_failures, has_client, idx,
                   results, invoked, hl_last>>
    /\ UNCHANGED <<clientVars, otherVars>>

\* results = []; entering the for loop
RunTestsBegin ==
    /\ rpc = "start"
    /\ tests # <<>>
    /\ rpc' = "loop"
    /\ idx' = 1
    /\ results' = <<>>
    /\ UNCHANGED <<tests, stop_on_failure, highlight_failures, has_client,
                   invoked, hl_last, ret>>
    /\ UNCHANGED <<clientVars, otherVars>>

\* One iteration whose callable returns a value (lines 1282-1297).
TestReturns ==
    /\ rpc = "loop"
    /\ tests[idx] \in ReturnOutcomes
    /\ invoked' = Append(invoked, idx)
    /\ IF IsFalse(tests[idx])
         THEN /\ results' = Append(results, FALSE)
              /\ rpc' = AfterFailure(stop_on_failure, idx, Len(tests))
         ELSE /\ results' = Append(results, TRUE)
              /\ rpc' = AfterPass(idx, Len(tests))
    /\ idx' = idx + 1
    /\ UNCHANGED <<tests, stop_on_failure, highlight_failures, has_client,
                   hl_last, ret>>
    /\ UNCHANGED <<clientVars, otherVars>>

\* Where run_tests is after the highlight attempt ended as h, next being
\* where the stop decision leads: the bare `except: pass` (lines 1321-1322)
\* takes every error of the attempt.  "raised" is run_tests left by an
\* error, without a return value.
HighlightErrors == {"query raised", "highlight raised"}
AfterHighlightPropagates(h, next) == IF h \in HighlightErrors THEN "raised" ELSE next
AfterHighlight(h, next) == next

\* One iteration whose callable raises AssertionFailedError (lines 1299-1328):
\* the failure is recorded, then the highlight is attempted inside a bare
\* try/except, then the stop decision is taken.
TestRaisesAssertion ==
    /\ rpc = "loop"
    /\ tests[idx] = "AssertionFailedError"
    /\ invoked' = Append(invoked, idx)
    /\ results' = Append(results, FALSE)
    /\ IF highlight_failures /\ has_client
         THEN \E h \in HighlightOutcomes :
                  /\ hl_last' = h
                  /\ rpc' = AfterHighlight(h, AfterFailure(stop_on_failure, idx, Len(tests)))
         ELSE /\ hl_last' = hl_last
              /\ rpc' = AfterFailure(stop_on_failure, idx, Len(tests))
    /\ idx' = idx + 1
    /\ UNCHANGED <<tests, stop_on_failure, highlight_failures, has_client, ret>>
    /\ UNCHANGED <<clientVars, otherVars>>

\* One iteration whose callable raises another Exception (lines 1330-1340).
TestRaisesOther ==
    /\ rpc = "loop"
    /\ tests[idx] = "Exception"
    /\ invoked' = Append(invoked, idx)
    /\ results' = Append(results, FALSE)
    /\ rpc' = AfterFailure(stop_on_failure, idx, Len(tests))
    /\ idx' = idx + 1
    /\ UNCHANGED <<tests, stop_on_failure, highlight_failures, has_client,
                   hl_last, ret>>
    /\ UNCHANGED <<clientVars, otherVars>>

\* The summary and `return 0 if all(results) else 1` (lines 1342-1357).
RunTestsReturn ==
    /\ rpc = "summary"
    /\ rpc' = "done"
    /\ ret' = ExitStatus(results)
    /\ UNCHANGED <<tests, stop_on_failure, highlight_failures, has_client, idx,
                   results, invoked, hl_last>>
    /\ UNCHANGED <<clientVars, otherVars>>


\* ------------------------------------------------------------------------
\* run_interactive_tests (uitest.py 1360-1400)
\* ------------------------------------------------------------------------
\* A keyword the caller passes or leaves out.
Keywords == {"absent", "True", "False"}

\* kwargs.setdefault(key, True): the caller's value when there is one.
SetDefaultForced(kw, default) == default
SetDefault(kw, default) == IF kw = "absent" THEN default ELSE kw = "True"

\* pause_between in tenths of a second; time.sleep of a negative number
\* raises ValueError.
Pauses == {-1, 0, 5}
SleepRaises(pause_between) == pause_between < 0

\* The defaults, `if not tests: return 0`, the wrapping of every callable in
\* paused(), and the call of run_tests up to its first statement.
RunInteractiveTests ==
    /\ rpc = "not called"
    /\ proc.pc = "idle"
    /\ \E ts \in SeqsUpTo(Outcomes, MaxTests), stop_kw \in Keywords,
          highlight_kw \in Keywords, client \in BOOLEAN, pause_between \in Pauses :
           /\ tests' = ts
           /\ stop_on_failure' = SetDefault(stop_kw, TRUE)
           /\ highlight_failures' = SetDefault(highlight_kw, TRUE)
           /\ has_client' = client
           /\ rpc' = IF ts = <<>> THEN "done" ELSE "start"
           /\ ret' = IF ts = <<>> THEN 0 ELSE ret
           /\ proc' = [op |-> "run_interactive_tests", pc |-> "run_tests",
                       stop_kw |-> stop_kw, highlight_kw |-> highlight_kw,
                       pause_between |-> pause_between, pauses |-> <<>>]
    /\ UNCHANGED <<idx, results, invoked, hl_last>>
    /\ UNCHANGED <<clientVars, waitVars, mouse>>

\* One iteration of run_tests on a paused() whose original callable returns:
\* the sleep, then `return result`, then lines 1282-1297; a sleep that
\* raises is recorded by the `except Exception` handler.
PausedTestReturns ==
    /\ proc.op = "run_interactive_tests"
    /\ rpc = "loop"
    /\ tests[idx] \in ReturnOutcomes
    /\ invoked' = Append(invoked, idx)
    /\ proc' = [proc EXCEPT !.pauses = Append(@, idx)]
    /\ IF SleepRaises(proc.pause_between) \/ IsFalse(tests[idx])
         THEN /\ results' = Append(results, FALSE)
              /\ rpc' = AfterFailure(stop_on_failure, idx, Len(tests))
         ELSE /\ results' = Append(results, TRUE)
              /\ rpc' = AfterPass(idx, Len(tests))
    /\ idx' = idx + 1
    /\ UNCHANGED <<tests, stop_on_failure, highlight_failures, has_client,
                   hl_last, ret>>
    /\ UNCHANGED <<clientVars, waitVars, mouse>>

\* ------------------------------------------------------------------------
\* Text and JSON values
\* ------------------------------------------------------------------------
\* A text (stdout, stderr, a title) is a sequence of atoms.  An atom is one
\* character, or one whole word standing for the characters that spell it
\* (a key name, a number, a literal), which no operation of the client
\* splits.  A parsed JSON value is a pair <<tag, payload>>.

NL == "\n"
Q == "\""
StripChars == {" ", "\t", "\f", NL}  \* removed by str.strip()
JsonWs == {" ", "\t", NL}            \* skipped by json.loads between tokens
NumberAtoms == {"0", "1", "200", "250", "1000"}

PyNone == <<"null", <<>>>>
PyTrue == <<"bool", <<"true">>>>
PyFalse == <<"bool", <<"false">>>>
PyStr(s) == <<"str", s>>
PyNum(a) == <<"num", <<a>>>>
PyList(xs) == <<"list", xs>>
PyDict(f) == <<"dict", f>>
PyBool(b) == IF b THEN PyTrue ELSE PyFalse

\* The dict built from key/value pairs read left to right (a later
\* duplicate key replaces an earlier one).
LastIndexOf(pairs, k) ==
    CHOOSE j \in 1..Len(pairs) :
        /\ pairs[j][1] = k
        /\ \A m \in (j + 1)..Len(pairs) : pairs[m][1] # k
DictOfPairs(pairs) ==
    [k \in {pairs[j][1] : j \in 1..Len(pairs)} |-> pairs[LastIndexOf(pairs, k)][2]]

\* str.split('\n')
RECURSIVE SplitLines(_)
SplitLines(t) ==
    IF \E i \in 1..Len(t) : t[i] = NL
      THEN LET i == CHOOSE i \in 1..Len(t) :
                        t[i] = NL /\ \A j \in 1..(i - 1) : t[j] # NL
           IN <<SubSeq(t, 1, i - 1)>> \o SplitLines(SubSeq(t, i + 1, Len(t)))
      ELSE <<t>>

\* '\n'.join(lines)
RECURSIVE JoinLines(_)
JoinLines(ls) ==
    IF ls = <<>> THEN <<>>
    ELSE IF Len(ls) = 1 THEN ls[1]
    ELSE ls[1] \o <<NL>> \o JoinLines(Tail(ls))

\* str.strip()
Strip(t) ==
    IF \A i \in 1..Len(t) : t[i] \in StripChars
      THEN <<>>
      ELSE LET a == CHOOSE i \in 1..Len(t) :
                        t[i] \notin StripChars /\ \A j \in 1..(i - 1) : t[j] \in StripChars
               b == CHOOSE i \in 1..Len(t) :
                        t[i] \notin StripChars /\ \A j \in (i + 1)..Len(t) : t[j] \in StripChars
           IN SubSeq(t, a, b)

\* line.strip().startswith('{')
StartsWithBraceContains(line) == \E i \in 1..Len(line) : line[i] = "{"
StartsWithBrace(line) == LET s == Strip(line) IN s # <<>> /\ s[1] = "{"

\* `sub in text` for two texts
Contains(text, sub) ==
    \E i \in 0..(Len(text) - Len(sub)) :
        \A j \in 1..Len(sub) : text[i + j] = sub[j]

\* json.loads: a recursive-descent parser.  Each Parse operator reads at
\* position i of t and yields [ok, val, pos], pos being the position after
\* what it read.
ParseFail == [ok |-> FALSE, val |-> PyNone, pos |-> 0]
ParseOk(v, p) == [ok |-> TRUE, val |-> v, pos |-> p]

RECURSIVE SkipWs(_, _)
SkipWs(t, i) == IF i <= Len(t) /\ t[i] \in JsonWs THEN SkipWs(t, i + 1) ELSE i

\* A string: from the opening quote at i to the next quote; a raw line
\* break or control character inside it is an error.
ParseString(t, i) ==
    IF i > Len(t) \/ t[i] # Q THEN ParseFail
    ELSE IF ~(\E j \in (i + 1)..Len(t) : t[j] = Q) THEN ParseFail
    ELSE LET j == CHOOSE j \in (i + 1)..Len(t) :
                      t[j] = Q /\ \A m \in (i + 1)..(j - 1) : t[m] # Q
             body == SubSeq(t, i + 1, j - 1)
         IN IF \E m \in 1..Len(body) : body[m] \in {NL, "\t", "\f"}
              THEN ParseFail
              ELSE ParseOk(PyStr(body), j + 1)

RECURSIVE ParseValue(_, _), ParseMembers(_, _, _), ParseElements(_, _, _)

\* A value at position i (leading whitespace already skipped).
ParseValue(t, i) ==
    IF i > Len(t) THEN ParseFail
    ELSE IF t[i] = "{" THEN
        LET j == SkipWs(t, i + 1)
        IN IF j <= Len(t) /\ t[j] = "}"
             THEN ParseOk(PyDict(DictOfPairs(<<>>)), j + 1)
             ELSE ParseMembers(t, j, <<>>)
    ELSE IF t[i] = "[" THEN
        LET j == SkipWs(t, i + 1)
        IN IF j <= Len(t) /\ t[j] = "]"
             THEN ParseOk(PyList(<<>>), j + 1)
             ELSE ParseElements(t, j, <<>>)
    ELSE IF t[i] = Q THEN ParseString(t, i)
    ELSE IF t[i] \in NumberAtoms THEN ParseOk(PyNum(t[i]), i + 1)
    ELSE IF t[i] = "true" THEN ParseOk(PyTrue, i + 1)
    ELSE IF t[i] = "false" THEN ParseOk(PyFalse, i + 1)
    ELSE IF t[i] = "null" THEN ParseOk(PyNone, i + 1)
    ELSE ParseFail

\* The members of an object from position i (a key is expected there),
\* acc being the pairs read so far.
ParseMembers(t, i, acc) ==
    LET k == ParseString(t, i)
    IN IF ~k.ok THEN ParseFail
       ELSE LET c == SkipWs(t, k.pos)
            IN IF c > Len(t) \/ t[c] # ":" THEN ParseFail
               ELSE LET v == ParseValue(t, SkipWs(t, c + 1))
                    IN IF ~v.ok THEN ParseFail
                       ELSE LET e == SkipWs(t, v.pos)
                                acc2 == Append(acc, <<k.val[2], v.val>>)
                            IN IF e > Len(t) THEN ParseFail
                               ELSE IF t[e] = "}"
                                 THEN ParseOk(PyDict(DictOfPairs(acc2)), e + 1)
                               ELSE IF t[e] = ","
                                 THEN ParseMembers(t, SkipWs(t, e + 1), acc2)
                               ELSE ParseFail

\* The elements of an array from position i, acc being those read so far.
ParseElements(t, i, acc) ==
    LET v == ParseValue(t, i)
    IN IF ~v.ok THEN ParseFail
       ELSE LET e == SkipWs(t, v.pos)
                acc2 == Append(acc, v.val)
            IN IF e > Len(t) THEN ParseFail
               ELSE IF t[e] = "]" THEN ParseOk(PyList(acc2), e + 1)
               ELSE IF t[e] = "," THEN ParseElements(t, SkipWs(t, e + 1), acc2)
               ELSE ParseFail

\* json.loads(text): one value, whitespace around it, nothing after it.
\* [ok |-> FALSE] stands for JSONDecodeError.
JsonLoads(t) ==
    LET v == ParseValue(t, SkipWs(t, 1))
    IN IF ~v.ok THEN ParseFail
       ELSE IF SkipWs(t, v.pos) = Len(t) + 1 THEN v
       ELSE ParseFail

\* ------------------------------------------------------------------------
\* Outcomes of client operations
\* ------------------------------------------------------------------------
\* An operation of the client ends by returning a value or raising; `last`
\* is the value of self._last_json_response when it ends.
Returned(v, last) == [raised |-> "none", value |-> v, last |-> last]
Raised(e, last) == [raised |-> e, value |-> PyNone, last |-> last]

PyInt(n) == <<"int", <<n>>>>
PyTuple(xs) == <<"tuple", xs>>

\* The classes derived from Exception that occur (uitest.py 25-42, and the
\* errors subprocess.run raises); every one is caught by `except Exception`.
UITestExceptions ==
    {"UITestException", "WorkspaceNotRunningError", "CommandFailedError",
     "AssertionFailedError"}
ExceptionClasses == UITestExceptions \cup {"TimeoutExpired", "OSError"}

\* ------------------------------------------------------------------------
\* _run_command (uitest.py 133-166)
\* ------------------------------------------------------------------------
\* A reply is what the spawned bridge process does: it cannot be started
\* ("spawn error"), it runs past the 10 second limit ("timeout"), or it
\* completes with stdout, stderr and an exit code.

Sentinel == <<"Cannot", " ", "contact", " ", "Workspace">>

\* The body of the try statement: subprocess.run, then the sentinel test.
RunCommandTryRaiseOnExit(r, last) ==
    IF r.kind = "spawn error" THEN Raised("OSError", last)
    ELSE IF r.kind = "timeout" THEN Raised("TimeoutExpired", last)
    ELSE IF Contains(r.stderr, Sentinel) THEN Raised("WorkspaceNotRunningError", last)
    ELSE IF r.code # 0 THEN Raised("CalledProcessError", last)
    ELSE Returned(PyTuple(<<PyStr(r.stdout), PyStr(r.stderr), PyInt(r.code)>>), last)
RunCommandTry(r, last) ==
    IF r.kind = "spawn error" THEN Raised("OSError", last)
    ELSE IF r.kind = "timeout" THEN Raised("TimeoutExpired", last)
    ELSE IF Contains(r.stderr, Sentinel) THEN Raised("WorkspaceNotRunningError", last)
    ELSE Returned(PyTuple(<<PyStr(r.stdout), PyStr(r.stderr), PyInt(r.code)>>), last)

\* The try statement with its two handlers, tried in order:
\* `except subprocess.TimeoutExpired` and `except Exception`.  An error
\* raised inside the try body, the WorkspaceNotRunningError included, is
\* an Exception and reaches the second handler.
RunCommand(r, last) ==
    LET body == RunCommandTry(r, last)
    IN IF body.raised = "none" THEN body
       ELSE IF body.raised = "TimeoutExpired" THEN Raised("CommandFailedError", last)
       ELSE Raised("CommandFailedError", last)

\* Fields of the triple _run_command returns.
StdoutOf(triple) == triple[2][1][2]
StderrOf(triple) == triple[2][2][2]
CodeOf(triple) == triple[2][3][2][1]

\* ------------------------------------------------------------------------
\* _extract_json (uitest.py 168-189)
\* ------------------------------------------------------------------------
ExtractJsonCacheAlways(output, last) ==
    LET lines == SplitLines(output)
        starts == {i \in 1..Len(lines) : StartsWithBrace(lines[i])}
    IN IF starts = {} THEN Raised("UITestException", PyNone)
       ELSE LET json_start == CHOOSE i \in starts : \A j \in starts : i <= j
                json_text == JoinLines(SubSeq(lines, json_start, Len(lines)))
                data == JsonLoads(json_text)
            IN IF data.ok THEN Returned(data.val, data.val)
               ELSE Raised("UITestException", PyNone)
ExtractJson(output, last) ==
    LET lines == SplitLines(output)
        starts == {i \in 1..Len(lines) : StartsWithBrace(lines[i])}
    IN IF starts = {} THEN Raised("UITestException", last)
       ELSE LET json_start == CHOOSE i \in starts : \A j \in starts : i <= j
                json_text == JoinLines(SubSeq(lines, json_start, Len(lines)))
                data == JsonLoads(json_text)
            IN IF data.ok THEN Returned(data.val, data.val)
               ELSE Raised("UITestException", last)

\* get_last_json_response (uitest.py 589-593)
GetLastJsonResponse(last) ==
    IF last = PyNone THEN Raised("UITestException", last) ELSE Returned(last, last)

\* ------------------------------------------------------------------------
\* Commands (uitest.py 193-384, 1067-1072)
\* ------------------------------------------------------------------------

\* In the operations below, c is how the operation's call of _run_command
\* ended, q how its call of query_ui_state ended.

\* query_ui_state, and get_menu_state which has the same shape: run the
\* command, raise CommandFailedError on a nonzero exit code, extract.
QueryUiState(c, last) ==
    IF c.raised # "none" THEN c
    ELSE IF CodeOf(c.value) # 0 THEN Raised("CommandFailedError", last)
    ELSE ExtractJson(StdoutOf(c.value), last)

\* open_about_dialog: as query_ui_state, but returns None.
OpenAboutDialog(q) ==
    IF q.raised # "none" THEN q ELSE Returned(PyNone, q.last)

\* click, menu, shortcut, highlight_failure, clear_highlights,
\* wait_for_window, close_window, find_element: run the command and
\* extract from stdout, whatever the exit code.
SimpleCommand(c, last) ==
    IF c.raised # "none" THEN c
    ELSE ExtractJson(StdoutOf(c.value), last)

\* get_ui_at_coordinate: no extraction; a nonzero exit code raises unless
\* stdout says that nothing was found there.
NoElementsText == <<"No UI elements found">>
GetUiAtCoordinate(c, last) ==
    IF c.raised # "none" THEN c
    ELSE IF CodeOf(c.value) # 0
      THEN IF Contains(StdoutOf(c.value), NoElementsText)
             THEN Returned(PyStr(<<>>), last)
             ELSE Raised("CommandFailedError", last)
    ELSE Returned(PyStr(StdoutOf(c.value)), last)

\* test_workspace_responding (uitest.py 1221-1228): construct a client,
\* query, and turn only WorkspaceNotRunningError into False.  ctor is what
\* the constructor's `uitest help` probe did (uitest.py 120-131), q how
\* the new client's query_ui_state ended.
TestWorkspaceResponding(ctor, q) ==
    IF ctor = "help failed" THEN Raised("CommandFailedError", PyNone)
    ELSE IF ctor = "not found" THEN Raised("UITestException", PyNone)
    ELSE IF q.raised = "none" THEN Returned(PyTrue, q.last)
    ELSE IF q.raised = "WorkspaceNotRunningError" THEN Returned(PyFalse, q.last)
    ELSE q

\* ------------------------------------------------------------------------
\* Query helpers (uitest.py 423-489, 597-648, 756-890)
\* ------------------------------------------------------------------------
\* The helpers read snapshots shaped as the bridge writes them: `windows`
\* a list of objects, `title`, `class`, `text`, `visibility` strings,
\* `children` and `views` lists of objects, `contentView` an object.

\* dict.get(key, default) and `key in dict`, key being a word atom
DictGet(d, k, dflt) == IF <<k>> \in DOMAIN d[2] THEN d[2][<<k>>] ELSE dflt
HasKey(d, k) == <<k>> \in DOMAIN d[2]

\* str.lower(), atom by atom
LowerAtom(a) ==
    CASE a = "W" -> "w" [] a = "O" -> "o" [] a = "R" -> "r" [] a = "K" -> "k"
      [] a = "Info" -> "info" [] a = "Finder" -> "finder"
      [] a = "Delete" -> "delete" [] a = "Alert" -> "alert"
      [] a = "Error" -> "error" [] a = "Warning" -> "warning"
      [] a = "Confirm" -> "confirm" [] a = "Save" -> "save"
      [] a = "Open" -> "open" [] a = "Choose" -> "choose"
      [] a = "Select" -> "select"
      [] a = "Confirmation" -> "confirmation" [] a = "Inspector" -> "inspector"
      [] a = "Terminal" -> "terminal" [] a = "Workspace" -> "workspace"
      [] a = "GNUstep" -> "gnustep" [] a = "Panel" -> "panel"
      [] a = "Re" -> "re" [] a = "File" -> "file"
      [] a = "WM_CLASS(STRING) = " -> "wm_class(string) = "
      [] OTHER -> a
Lower(t) == [i \in 1..Len(t) |-> LowerAtom(t[i])]

\* state.get('windows', [])
WindowsOf(state) == DictGet(state, "windows", PyList(<<>>))[2]

\* window_exists: the try body compares `title` and `windowTitle` of every
\* window; `except Exception: return False`.
TitleMatchesTitleOnly(w, title) == DictGet(w, "title", PyNone) = PyStr(title)
TitleMatches(w, title) ==
    \/ DictGet(w, "title", PyNone) = PyStr(title)
    \/ DictGet(w, "windowTitle", PyNone) = PyStr(title)
WindowExists(q, title) ==
    IF q.raised \in ExceptionClasses THEN Returned(PyFalse, q.last)
    ELSE LET windows == WindowsOf(q.value)
         IN Returned(PyBool(\E i \in 1..Len(windows) : TitleMatches(windows[i], title)),
                     q.last)

\* text_visible: search_in_tree looks at the `text` of a dict, then at its
\* `children`; a list is searched item by item.
RECURSIVE SearchInTree(_, _, _)
SearchInTree(obj, search_text, case_sensitive) ==
    IF obj[1] = "dict"
      THEN \/ /\ HasKey(obj, "text")
              /\ LET element_text == obj[2][<<"text">>][2]
                 IN Contains(IF case_sensitive THEN element_text ELSE Lower(element_text),
                             search_text)
           \/ /\ HasKey(obj, "children")
              /\ LET children == obj[2][<<"children">>][2]
                 IN \E i \in 1..Len(children) :
                        SearchInTree(children[i], search_text, case_sensitive)
    ELSE IF obj[1] = "list"
      THEN \E i \in 1..Len(obj[2]) : SearchInTree(obj[2][i], search_text, case_sensitive)
    ELSE FALSE

\* `search_text = text if case_sensitive else text.lower()`
SearchTextAsGiven(text, case_sensitive) == text
SearchText(text, case_sensitive) == IF case_sensitive THEN text ELSE Lower(text)

TextVisible(q, text, case_sensitive) ==
    IF q.raised \in ExceptionClasses THEN Returned(PyFalse, q.last)
    ELSE LET windows == WindowsOf(q.value)
             search_text == SearchText(text, case_sensitive)
         IN Returned(PyBool(\E i \in 1..Len(windows) :
                                SearchInTree(windows[i], search_text, case_sensitive)),
                     q.last)

\* get_visible_windows: no try statement, errors of the query propagate.
IsVisible(w) == DictGet(w, "visibility", PyNone) = PyStr(<<"visible">>)
GetVisibleWindows(q) ==
    IF q.raised # "none" THEN q
    ELSE Returned(PyList(SelectSeq(WindowsOf(q.value), IsVisible)), q.last)

\* get_window_titles: no try statement either.
GetWindowTitles(q) ==
    IF q.raised # "none" THEN q
    ELSE LET windows == WindowsOf(q.value)
         IN Returned(PyList([i \in 1..Len(windows) |->
                                DictGet(windows[i], "title", PyStr(<<>>))]),
                     q.last)

\* get_modal_windows: the visible windows whose class names a panel, whose
\* title holds a keyword, or whose frame is smaller than 400 x 300.
ModalClasses ==
    {"NSPanel", "NSAlertPanel", "GSAlertPanel", "NSOpenPanel", "NSSavePanel",
     "NSFontPanel", "NSColorPanel"}
ModalTitleKeywords ==
    {"Alert", "Error", "Warning", "Confirm", "Delete", "Save", "Open", "Choose",
     "Select"}
NumberOf(v) ==
    CASE v[2][1] = "0" -> 0 [] v[2][1] = "1" -> 1 [] v[2][1] = "200" -> 200
      [] v[2][1] = "250" -> 250 [] v[2][1] = "1000" -> 1000
LooksModal(w) ==
    LET window_class == DictGet(w, "class", PyStr(<<>>))[2]
        title == DictGet(w, "title", PyStr(<<>>))[2]
        frame == DictGet(w, "frame", PyDict(DictOfPairs(<<>>)))
        width == NumberOf(DictGet(frame, "width", PyNum("1000")))
        height == NumberOf(DictGet(frame, "height", PyNum("1000")))
    IN \/ \E mc \in ModalClasses : Contains(window_class, <<mc>>)
       \/ \E kw \in ModalTitleKeywords : Contains(Lower(title), Lower(<<kw>>))
       \/ width < 400 /\ height < 300
\* v is how the call of get_visible_windows ended.
GetModalWindows(v) ==
    IF v.raised # "none" THEN v
    ELSE Returned(PyList(SelectSeq(v.value[2], LooksModal)), v.last)

\* has_modal_dialog: len(self.get_modal_windows()) > 0, m being how the
\* call of get_modal_windows ended.
HasModalDialog(m) ==
    IF m.raised # "none" THEN m
    ELSE Returned(PyBool(Len(m.value[2]) > 0), m.last)

\* The keys the other tree walks descend into, in this order.
ChildKeys == <<"children", "contentView", "views">>

\* count_elements_by_class: count_class adds one for a dict of the class
\* and walks the three child keys; the query is inside try/except.
RECURSIVE CountClass(_, _), CountClassInList(_, _)
CountClass(obj, class_name) ==
    IF obj[1] = "dict"
      THEN (IF DictGet(obj, "class", PyNone) = PyStr(class_name) THEN 1 ELSE 0)
           + CountClassInList([k \in 1..3 |->
                 IF HasKey(obj, ChildKeys[k]) THEN obj[2][<<ChildKeys[k]>>] ELSE PyNone],
               class_name)
    ELSE IF obj[1] = "list" THEN CountClassInList(obj[2], class_name)
    ELSE 0
CountClassInList(xs, class_name) ==
    IF xs = <<>> THEN 0
    ELSE CountClass(Head(xs), class_name) + CountClassInList(Tail(xs), class_name)
CountElementsByClass(q, class_name) ==
    IF q.raised \in ExceptionClasses THEN Returned(PyInt(0), q.last)
    ELSE Returned(PyInt(CountClassInList(WindowsOf(q.value), class_name)), q.last)

\* get_element_by_text: find_element returns the first dict, in depth-first
\* order, whose `text` equals the text; None when there is none or when
\* the query fails.
RECURSIVE FindElement(_, _), FindElementInList(_, _)
FindElement(obj, text) ==
    IF obj[1] = "dict"
      THEN IF DictGet(obj, "text", PyNone) = PyStr(text) THEN obj
           ELSE FindElementInList([k \in 1..3 |->
                    IF HasKey(obj, ChildKeys[k]) THEN obj[2][<<ChildKeys[k]>>] ELSE PyNone],
                  text)
    ELSE IF obj[1] = "list" THEN FindElementInList(obj[2], text)
    ELSE PyNone
FindElementInList(xs, text) ==
    IF xs = <<>> THEN PyNone
    ELSE LET result == FindElement(Head(xs), text)
         IN IF result # PyNone THEN result ELSE FindElementInList(Tail(xs), text)
GetElementByText(q, text) ==
    IF q.raised \in ExceptionClasses THEN Returned(PyNone, q.last)
    ELSE Returned(FindElementInList(WindowsOf(q.value), text), q.last)

\* get_visible_text_in_window: extract_texts collects every non-empty
\* `text` of the first window titled `title`, walking the three child keys;
\* the empty list when the query fails.
RECURSIVE ExtractTexts(_), ExtractTextsInList(_)
ExtractTexts(obj) ==
    IF obj[1] = "dict"
      THEN (IF HasKey(obj, "text") /\ obj[2][<<"text">>][2] # <<>>
              THEN <<obj[2][<<"text">>]>> ELSE <<>>)
           \o ExtractTextsInList([k \in 1..3 |->
                  IF HasKey(obj, ChildKeys[k]) THEN obj[2][<<ChildKeys[k]>>] ELSE PyNone])
    ELSE IF obj[1] = "list" THEN ExtractTextsInList(obj[2])
    ELSE <<>>
ExtractTextsInList(xs) ==
    IF xs = <<>> THEN <<>>
    ELSE ExtractTexts(Head(xs)) \o ExtractTextsInList(Tail(xs))
GetVisibleTextInWindow(q, title) ==
    IF q.raised \in ExceptionClasses THEN Returned(PyList(<<>>), q.last)
    ELSE LET windows == WindowsOf(q.value)
             titled == {i \in 1..Len(windows) :
                           DictGet(windows[i], "title", PyNone) = PyStr(title)}
         IN IF titled = {} THEN Returned(PyList(<<>>), q.last)
            ELSE LET first == CHOOSE i \in titled : \A j \in titled : i <= j
                 IN Returned(PyList(ExtractTexts(windows[first])), q.last)

\* ------------------------------------------------------------------------
\* Menu helpers (uitest.py 1049-1185)
\* ------------------------------------------------------------------------
\* In these, q is how the call of get_menu_state ended; get_menu_state has
\* the shape of query_ui_state (QueryUiState), its command being list-menus.

\* bool(value) of a parsed JSON value
Truthy(v) ==
    CASE v[1] = "null" -> FALSE
      [] v[1] = "bool" -> v = PyTrue
      [] v[1] = "num" -> v[2][1] # "0"
      [] v[1] \in {"str", "list"} -> v[2] # <<>>
      [] v[1] = "dict" -> DOMAIN v[2] # {}

\* state.get('menus', [])
MenusOf(state) == DictGet(state, "menus", PyList(<<>>))[2]

\* get_menu_items: the `items` of the first menu with this title.
GetMenuItems(q, menu_title) ==
    IF q.raised # "none" THEN q
    ELSE LET menus == MenusOf(q.value)
             titled == {i \in 1..Len(menus) :
                           DictGet(menus[i], "title", PyNone) = PyStr(menu_title)}
         IN IF titled = {} THEN Raised("UITestException", q.last)
            ELSE Returned(DictGet(menus[CHOOSE i \in titled : \A j \in titled : i <= j],
                                  "items", PyList(<<>>)),
                          q.last)

\* is_menu_item_enabled: item.get('enabled', False) of the first item with
\* this title, g being how the call of get_menu_items ended.
FirstTitled(items, item_title) ==
    CHOOSE i \in 1..Len(items) :
        /\ DictGet(items[i], "title", PyNone) = PyStr(item_title)
        /\ \A j \in 1..(i - 1) : DictGet(items[j], "title", PyNone) # PyStr(item_title)
IsMenuItemEnabledAbsentFalse(g, item_title) ==
    IF g.raised # "none" THEN g
    ELSE IF \E i \in 1..Len(g.value[2]) :
                DictGet(g.value[2][i], "title", PyNone) = PyStr(item_title)
      THEN Returned(DictGet(g.value[2][FirstTitled(g.value[2], item_title)],
                            "enabled", PyFalse),
                    g.last)
    ELSE Returned(PyFalse, g.last)
IsMenuItemEnabled(g, item_title) ==
    IF g.raised # "none" THEN g
    ELSE IF \E i \in 1..Len(g.value[2]) :
                DictGet(g.value[2][i], "title", PyNone) = PyStr(item_title)
      THEN Returned(DictGet(g.value[2][FirstTitled(g.value[2], item_title)],
                            "enabled", PyFalse),
                    g.last)
    ELSE Raised("UITestException", g.last)

\* get_enabled_menu_items and get_disabled_menu_items walk the menus alike:
\* a menu is skipped when a menu_title is given (and not empty) and differs
\* from its title, a separator item is skipped, and an item that is kept
\* is copied with the menu's title under 'menu'.
MenuSelected(menu, menu_title) ==
    ~(Truthy(menu_title) /\ DictGet(menu, "title", PyNone) # menu_title)
IsSeparator(item) == Truthy(DictGet(item, "separator", PyNone))
NotSeparatorAny(item) == TRUE
NotSeparator(item) == ~IsSeparator(item)
ItemEnabled(item) == Truthy(DictGet(item, "enabled", PyNone))
ItemDisabled(item) == ~Truthy(DictGet(item, "enabled", PyNone))
WithMenu(item, menu) ==
    PyDict([k \in DOMAIN item[2] \cup {<<"menu">>} |->
               IF k = <<"menu">> THEN DictGet(menu, "title", PyNone) ELSE item[2][k]])
ItemCopies(menu) ==
    LET items == SelectSeq(DictGet(menu, "items", PyList(<<>>))[2], NotSeparator)
    IN [i \in 1..Len(items) |-> WithMenu(items[i], menu)]
RECURSIVE ItemsInScope(_, _)
ItemsInScope(menus, menu_title) ==
    IF menus = <<>> THEN <<>>
    ELSE (IF MenuSelected(Head(menus), menu_title) THEN ItemCopies(Head(menus)) ELSE <<>>)
         \o ItemsInScope(Tail(menus), menu_title)
GetEnabledMenuItems(q, menu_title) ==
    IF q.raised # "none" THEN q
    ELSE Returned(PyList(SelectSeq(ItemsInScope(MenusOf(q.value), menu_title), ItemEnabled)),
                  q.last)
GetDisabledMenuItems(q, menu_title) ==
    IF q.raised # "none" THEN q
    ELSE Returned(PyList(SelectSeq(ItemsInScope(MenusOf(q.value), menu_title), ItemDisabled)),
                  q.last)

\* ------------------------------------------------------------------------
\* assert_text_contains (uitest.py 386-419)
\* ------------------------------------------------------------------------
\* s is how the one bridge command of the call ended: highlight_failure
\* when actual_text is given, does not hold expected_text and
\* highlight_on_fail is set; find_element when actual_text is None.
\* Neither call is inside a try statement.
AssertTextContains(s, expected_text, actual_text, highlight_on_fail, last) ==
    IF actual_text # PyNone
      THEN IF ~Contains(actual_text[2], expected_text)
             THEN IF highlight_on_fail
                    THEN IF s.raised # "none" THEN s
                         ELSE Raised("AssertionFailedError", s.last)
                    ELSE Raised("AssertionFailedError", last)
             ELSE Returned(PyTrue, last)
    ELSE IF s.raised # "none" THEN s
    ELSE IF ~Truthy(DictGet(s.value, "found", PyFalse))
      THEN Raised("AssertionFailedError", s.last)
    ELSE Returned(PyTrue, s.last)

\* ------------------------------------------------------------------------
\* What the bridge sends
\* ------------------------------------------------------------------------
\* JSON text as the bridge writes it.
Str(atoms) == <<Q>> \o atoms \o <<Q>>
RECURSIVE JoinWith(_, _)
JoinWith(parts, sep) ==
    IF parts = <<>> THEN <<>>
    ELSE IF Len(parts) = 1 THEN parts[1]
    ELSE parts[1] \o sep \o JoinWith(Tail(parts), sep)
Obj(members) == <<"{">> \o JoinWith(members, <<",">>) \o <<"}">>
Arr(elems) == <<"[">> \o JoinWith(elems, <<",">>) \o <<"]">>
KV(k, v) == Str(<<k>>) \o <<":">> \o v

\* Element texts and the texts searched for.
T_WORK == <<"W", "O", "R", "K">>
T_Work == <<"W", "o", "r", "k">>
T_ok == <<"o", "k">>
Texts == {<<"w", "o", "r", "k">>, <<"W", "o">>, <<"O", "R">>, <<"x">>}
Titles == {<<"Info">>, <<"Finder">>, <<"Run">>}
ClassNames == {<<"NSButton">>, <<"NSBrowser">>}

\* The windows a snapshot is made of.
WindowPool == <<
    \* 1: the Info panel, two labelled children
    Obj(<<KV("class", Str(<<"NSPanel">>)), KV("title", Str(<<"Info">>)),
          KV("visibility", Str(<<"visible">>)),
          KV("children", Arr(<<
              Obj(<<KV("class", Str(<<"NSTextField">>)), KV("text", Str(T_WORK))>>),
              Obj(<<KV("class", Str(<<"NSButton">>)), KV("text", Str(T_ok))>>)>>))>>),
    \* 2: a hidden window known by `windowTitle`, its text under contentView
    Obj(<<KV("windowTitle", Str(<<"Finder">>)), KV("visibility", Str(<<"hidden">>)),
          KV("contentView", Obj(<<KV("class", Str(<<"NSButton">>)),
              KV("children", Arr(<<Obj(<<KV("text", Str(T_Work))>>)>>))>>))>>),
    \* 3: a small viewer with a text of its own and a text two levels down
    Obj(<<KV("class", Str(<<"GWViewerWindow">>)), KV("title", Str(<<"Finder">>)),
          KV("visibility", Str(<<"visible">>)),
          KV("frame", Obj(<<KV("width", <<"200">>), KV("height", <<"250">>)>>)),
          KV("text", Str(T_ok)),
          KV("children", Arr(<<Obj(<<KV("children", Arr(<<
              Obj(<<KV("class", Str(<<"NSButton">>)), KV("text", Str(T_Work))>>)>>))>>)>>))>>),
    \* 4: a large window with a keyword title, its text under views
    Obj(<<KV("class", Str(<<"NSWindow">>)), KV("title", Str(<<"Delete">>)),
          KV("visibility", Str(<<"visible">>)),
          KV("frame", Obj(<<KV("width", <<"1000">>), KV("height", <<"1000">>)>>)),
          KV("views", Arr(<<Obj(<<KV("class", Str(<<"NSButton">>)),
              KV("children", Arr(<<Obj(<<KV("text", Str(T_WORK))>>)>>))>>)>>))>> ) >>

\* A snapshot names the windows it shows, in pool order.
Snapshots ==
    {sn \in SeqsUpTo(1..Len(WindowPool), MaxWindows) :
        \A i \in 1..(Len(sn) - 1) : sn[i] < sn[i + 1]}
SnapshotText(sn) ==
    Obj(<<KV("uiTestingEnabled", <<"true">>),
          KV("windows", Arr([i \in 1..Len(sn) |-> WindowPool[sn[i]]]))>>)

\* The menus a menu snapshot (the output of list-menus) is made of.
MenuTitles == {<<"File">>, <<"Edit">>, <<"Help">>}
ItemTitles == {<<"Open">>, <<"New Folder">>, <<"Cut">>, <<"Duplicate">>, <<"Paste">>}
MenuPool == <<
    \* 1: File, with a separator and an item that has no `enabled`
    Obj(<<KV("title", Str(<<"File">>)), KV("enabled", <<"true">>),
          KV("items", Arr(<<
              Obj(<<KV("title", Str(<<"Open">>)), KV("enabled", <<"true">>)>>),
              Obj(<<KV("title", Str(<<>>)), KV("separator", <<"true">>),
                    KV("enabled", <<"false">>)>>),
              Obj(<<KV("title", Str(<<"New Folder">>)), KV("enabled", <<"false">>)>>),
              Obj(<<KV("title", Str(<<"Duplicate">>))>>)>>))>>),
    \* 2: Edit, whose Open is disabled
    Obj(<<KV("title", Str(<<"Edit">>)),
          KV("items", Arr(<<
              Obj(<<KV("title", Str(<<"Cut">>)), KV("enabled", <<"true">>),
                    KV("separator", <<"false">>)>>),
              Obj(<<KV("title", Str(<<"Open">>)), KV("enabled", <<"false">>)>>)>>))>>),
    \* 3: Info, without items
    Obj(<<KV("title", Str(<<"Info">>))>>) >>
MenuSnapshots ==
    {mn \in SeqsUpTo(1..Len(MenuPool), MaxMenus) :
        \A i \in 1..(Len(mn) - 1) : mn[i] < mn[i + 1]}
MenuSnapshotText(mn) ==
    Obj(<<KV("success", <<"true">>),
          KV("menus", Arr([i \in 1..Len(mn) |-> MenuPool[mn[i]]]))>>)

\* Other documents and non-documents a command can print.
LiteralDocs == <<
    Obj(<<KV("a", <<"1">>)>>),                                          \* 1
    <<"{", "}">>,                                                       \* 2
    <<" ", "{", NL, Q, "a", Q, ":", " ", "true", NL, "}", NL>>,         \* 3
    Obj(<<KV("success", <<"false">>), KV("a", Arr(<<<<"1">>, <<"null">>>>))>>), \* 4
    Obj(<<KV("found", <<"true">>)>>),                                   \* 5
    <<"{">>,                                                            \* 6
    <<"{", "}", "x">>,                                                  \* 7
    <<"{", "}", NL, "{", "}">>,                                         \* 8
    <<"\f", "{", "}">>,                                                 \* 9
    <<>>,                                                               \* 10
    <<"x", "{", "}">>,                                                  \* 11
    <<"[", "1", "]">> >>                                                \* 12

\* Lines a command can print before its document; none starts with "{"
\* once stripped.
PreambleLines == << <<"Querying">>, <<>>, <<" ", "x", "{">> >>

\* What a command can print on stderr.
StderrTexts == <<
    <<>>,
    <<"warning">>,
    <<"Cannot", " ", "contact">>,
    <<"uitest:", " ", "Cannot", " ", "contact", " ", "Workspace", " ", "server">> >>

\* An environment choice describes one run of the bridge: its kind and,
\* when it completes, the preamble lines, the document, the stderr text
\* (by index) and the exit code.
DocText(doc) ==
    IF doc[1] = "ui" THEN SnapshotText(doc[2])
    ELSE IF doc[1] = "menu" THEN MenuSnapshotText(doc[2])
    ELSE LiteralDocs[doc[2]]
StdoutText(e) ==
    JoinLines([i \in 1..Len(e.pre) |-> PreambleLines[e.pre[i]]] \o <<DocText(e.doc)>>)
ReplyOf(e) ==
    [kind |-> e.kind, stdout |-> StdoutText(e), stderr |-> StderrTexts[e.err],
     code |-> e.code]

StderrAndCode == {<<1, 0>>, <<1, 1>>, <<2, 0>>, <<3, 0>>, <<4, 0>>, <<4, 1>>}
Completed(pre, doc, ec) ==
    [kind |-> "completed", pre |-> pre, doc |-> doc, err |-> ec[1], code |-> ec[2]]
NotCompleted(kind) ==
    [kind |-> kind, pre |-> <<>>, doc |-> <<"lit", 10>>, err |-> 1, code |-> 0]
LiteralEnvs ==
    {Completed(pre, <<"lit", b>>, ec) :
        pre \in SeqsUpTo(1..Len(PreambleLines), MaxPreamble),
        b \in 1..Len(LiteralDocs), ec \in StderrAndCode}
SnapshotEnvs ==
    {Completed(pre, <<"ui", sn>>, ec) :
        pre \in {<<>>, <<1>>}, sn \in Snapshots, ec \in StderrAndCode}
MenuEnvs ==
    {Completed(pre, <<"menu", mn>>, ec) :
        pre \in {<<>>, <<1>>}, mn \in MenuSnapshots, ec \in StderrAndCode}
Envs == LiteralEnvs \cup SnapshotEnvs \cup MenuEnvs
          \cup {NotCompleted("timeout"), NotCompleted("spawn error")}

\* The few environment choices of the specification of command sequences.
SequenceEnvs ==
    {Completed(pre, <<"lit", b>>, ec) :
        pre \in {<<>>, <<3>>}, b \in {1, 3, 7, 11}, ec \in {<<1, 0>>, <<1, 1>>, <<4, 0>>}}
      \cup {NotCompleted("timeout")}

\* ------------------------------------------------------------------------
\* Operations on the client, as steps
\* ------------------------------------------------------------------------
\* A call: the operation, its arguments (text, cs and arg, as the operation
\* uses them) and, for test_workspace_responding, what the constructor did.
NoCall == [op |-> "none", text |-> <<>>, cs |-> FALSE, ctor |-> "ok", arg |-> PyNone]
NoOut == [raised |-> "none", value |-> PyNone]
NoDoc == <<"none", 0>>
NoEnv == NotCompleted("none")

\* History of successful extractions: the operations that extract from
\* stdout, those of them that first require exit code 0, and the
\* documents that are one JSON object.
ExtractingOps ==
    {"query_ui_state", "open_about_dialog", "simple_command", "window_exists",
     "text_visible", "get_visible_windows", "get_window_titles", "get_modal_windows",
     "has_modal_dialog", "count_elements_by_class", "get_element_by_text",
     "get_visible_text_in_window"}
ValidLiteralDocs == {1, 2, 3, 4, 5}
DocIsValid(doc) == doc[1] \in {"ui", "menu"} \/ doc[2] \in ValidLiteralDocs
ReachesCaller(e) == e.kind = "completed" /\ e.err # 4
NextGood(op, e) ==
    IF op = "_extract_json"
      THEN IF DocIsValid(e.doc) THEN e.doc ELSE good
    ELSE IF op \in ExtractingOps /\ ReachesCaller(e) /\ DocIsValid(e.doc)
              /\ (op = "simple_command" \/ e.code = 0)
      THEN e.doc
    ELSE good

\* The operation op, called with these arguments while the bridge behaves
\* as e, ends as o.
Finish(o, op, text, cs, e) ==
    /\ call' = [op |-> op, text |-> text, cs |-> cs, ctor |-> "ok", arg |-> PyNone]
    /\ out' = [raised |-> o.raised, value |-> o.value]
    /\ last_json' = o.last
    /\ env' = e
    /\ good' = NextGood(op, e)
    /\ UNCHANGED <<runnerVars, otherVars>>

\* How _run_command and query_ui_state end on this client while the bridge
\* behaves as e.
Run(e) == RunCommand(ReplyOf(e), last_json)
Query(e) == QueryUiState(Run(e), last_json)

DoRunCommand(e) ==
    Finish(Run(e), "_run_command", <<>>, FALSE, e)
DoExtractJson(e) ==
    Finish(ExtractJson(StdoutText(e), last_json), "_extract_json", <<>>, FALSE, e)
DoQueryUiState(e) ==
    Finish(Query(e), "query_ui_state", <<>>, FALSE, e)
DoOpenAboutDialog(e) ==
    Finish(OpenAboutDialog(Query(e)), "open_about_dialog", <<>>, FALSE, e)
DoSimpleCommand(e) ==
    Finish(SimpleCommand(Run(e), last_json), "simple_command", <<>>, FALSE, e)
DoGetUiAtCoordinate(e) ==
    Finish(GetUiAtCoordinate(Run(e), last_json), "get_ui_at_coordinate", <<>>, FALSE, e)
DoGetLastJsonResponse ==
    /\ call.op # "get_last_json_response"
    /\ Finish(GetLastJsonResponse(last_json), "get_last_json_response", <<>>, FALSE, env)
DoWindowExists(e) ==
    \E title \in Titles :
        Finish(WindowExists(Query(e), title), "window_exists", title, FALSE, e)
DoTextVisible(e) ==
    \E text \in Texts, cs \in BOOLEAN :
        Finish(TextVisible(Query(e), text, cs), "text_visible", text, cs, e)
DoGetVisibleWindows(e) ==
    Finish(GetVisibleWindows(Query(e)), "get_visible_windows", <<>>, FALSE, e)
DoGetWindowTitles(e) ==
    Finish(GetWindowTitles(Query(e)), "get_window_titles", <<>>, FALSE, e)
DoGetModalWindows(e) ==
    Finish(GetModalWindows(GetVisibleWindows(Query(e))), "get_modal_windows",
           <<>>, FALSE, e)
DoHasModalDialog(e) ==
    Finish(HasModalDialog(GetModalWindows(GetVisibleWindows(Query(e)))),
           "has_modal_dialog", <<>>, FALSE, e)
DoCountElementsByClass(e) ==
    \E cn \in ClassNames :
        Finish(CountElementsByClass(Query(e), cn), "count_elements_by_class", cn, FALSE, e)
DoGetElementByText(e) ==
    \E text \in {T_Work, <<"x">>} :
        Finish(GetElementByText(Query(e), text), "get_element_by_text", text, FALSE, e)
DoGetVisibleTextInWindow(e) ==
    \E title \in Titles :
        Finish(GetVisibleTextInWindow(Query(e), title), "get_visible_text_in_window",
               title, FALSE, e)

\* A call with its arguments given as a call record, g being the document
\* of the most recent successful extraction after it.
FinishCall(o, c, e, g) ==
    /\ call' = c
    /\ out' = [raised |-> o.raised, value |-> o.value]
    /\ last_json' = o.last
    /\ env' = e
    /\ good' = g
    /\ UNCHANGED <<runnerVars, otherVars>>

\* assert_text_contains(window_title, expected_text, actual_text,
\* highlight_on_fail): text is expected_text, arg is actual_text, cs is
\* highlight_on_fail.
ExpectedTexts == {T_ok, <<"O", "R">>}
ActualTexts == {PyNone, PyStr(T_WORK), PyStr(T_ok)}
DoAssertTextContains(e) ==
    \E expected \in ExpectedTexts, actual \in ActualTexts, hl \in BOOLEAN :
        FinishCall(
            AssertTextContains(SimpleCommand(Run(e), last_json), expected, actual, hl,
                               last_json),
            [op |-> "assert_text_contains", text |-> expected, cs |-> hl, ctor |-> "ok",
             arg |-> actual],
            e,
            IF /\ \/ actual = PyNone
                  \/ hl /\ <<expected, actual>> \in
                                {<<T_ok, PyStr(T_WORK)>>, <<<<"O", "R">>, PyStr(T_ok)>>}
               /\ ReachesCaller(e) /\ DocIsValid(e.doc)
              THEN e.doc ELSE good)

\* The menu helpers; the one bridge command of each is list-menus.
DoIsMenuItemEnabled(e) ==
    \E menu \in MenuTitles, item \in ItemTitles :
        FinishCall(IsMenuItemEnabled(GetMenuItems(Query(e), menu), item),
                   [op |-> "is_menu_item_enabled", text |-> menu, cs |-> FALSE,
                    ctor |-> "ok", arg |-> PyStr(item)],
                   e, NextGood("query_ui_state", e))
DoGetEnabledMenuItems(e) ==
    \E menu_title \in {PyNone} \cup {PyStr(t) : t \in MenuTitles} :
        FinishCall(GetEnabledMenuItems(Query(e), menu_title),
                   [op |-> "get_enabled_menu_items", text |-> <<>>, cs |-> FALSE,
                    ctor |-> "ok", arg |-> menu_title],
                   e, NextGood("query_ui_state", e))
DoGetDisabledMenuItems(e) ==
    \E menu_title \in {PyNone} \cup {PyStr(t) : t \in MenuTitles} :
        FinishCall(GetDisabledMenuItems(Query(e), menu_title),
                   [op |-> "get_disabled_menu_items", text |-> <<>>, cs |-> FALSE,
                    ctor |-> "ok", arg |-> menu_title],
                   e, NextGood("query_ui_state", e))

\* test_workspace_responding builds a client of its own (its cache starts
\* as None): the cache of this client is not touched.
FinishResponding(o, ctor, e) ==
    /\ call' = [op |-> "test_workspace_responding", text |-> <<>>, cs |-> FALSE,
                ctor |-> ctor, arg |-> PyNone]
    /\ out' = [raised |-> o.raised, value |-> o.value]
    /\ env' = e
    /\ UNCHANGED <<last_json, good, runnerVars, otherVars>>
DoTestWorkspaceResponding(e) ==
    \E ctor \in {"ok", "help failed", "not found"} :
        FinishResponding(
            TestWorkspaceResponding(ctor,
                QueryUiState(RunCommand(ReplyOf(e), PyNone), PyNone)),
            ctor, e)

\* ------------------------------------------------------------------------
\* Waits (uitest.py 343-357, 892-928, 1005-1028; user_input.py 473-485;
\* tests/test_utils.py 220-238)
\* ------------------------------------------------------------------------
\* Time is counted in tenths of a second: time.sleep(0.2) is PollTicks and
\* the timeout=10 of subprocess.run in _run_command is ProxyLimit.
PollTicks == 2
ProxyLimit == 100
MaxTimeout == 6
MaxCheck == 2

\* wait_for_window(window_title, timeout) runs `wait-window` through
\* _run_command and extracts from stdout (SimpleCommand).  The bridge polls
\* for the window; when the window never appears it prints its failure
\* result once the timeout has passed, between timeout and timeout plus
\* one poll after it was started.
ProxyTimeouts ==
    {0, 5, 50, ProxyLimit - PollTicks - 1, ProxyLimit - 1, ProxyLimit, ProxyLimit + 1,
     ProxyLimit + 50}
WaitWindowRuns(timeout) == timeout..(timeout + PollTicks)

\* subprocess.run(cmd, timeout=10) when the command needs ran tenths of a
\* second and would then end as e: TimeoutExpired once the limit is passed.
\* The call record keeps ran and e as `ran` and `bridge`.
WithinLimit(e, ran) == IF ran > ProxyLimit THEN NotCompleted("timeout") ELSE e

DoWaitForWindow(e) ==
    \E title \in Titles, timeout \in ProxyTimeouts :
        \E ran \in WaitWindowRuns(timeout) :
            FinishCall(SimpleCommand(Run(WithinLimit(e, ran)), last_json),
                       [op |-> "wait_for_window", text |-> title, cs |-> FALSE,
                        ctor |-> "ok", arg |-> PyInt(timeout), ran |-> ran,
                        bridge |-> e],
                       WithinLimit(e, ran),
                       NextGood("simple_command", WithinLimit(e, ran)))

\* The polling waits share one loop:
\*     start = time.time()
\*     while time.time() - start < timeout:
\*         if <condition>: return True
\*         time.sleep(0.2)
\*     return False
\* The condition of wait_for_text is text_visible, of wait_for_window_closed
\* and of wait_for_window in test_utils window_exists, of
\* UserInput.wait_for_window search_window: each runs a command and catches
\* its errors, so it takes time and never raises.  The condition of
\* wait_for_file is os.path.exists.
PollingWaits ==
    {"wait_for_text", "wait_for_window_closed", "wait_for_file",
     "UserInput.wait_for_window", "test_utils.wait_for_window"}
CheckTicks(op) == IF op = "wait_for_file" THEN {0} ELSE 0..MaxCheck

NoWait ==
    [op |-> "none", timeout |-> 0, start |-> 0, pc |-> "idle", checks |-> 0,
     seen |-> FALSE, ret |-> NoValue]

\* The call and `start = time.time()`; checks counts the conditions
\* evaluated, seen records whether one was observed to hold.
WaitBegin ==
    /\ wait.pc = "idle"
    /\ \E op \in PollingWaits, timeout \in 0..MaxTimeout :
           wait' = [op |-> op, timeout |-> timeout, start |-> now, pc |-> "while",
                    checks |-> 0, seen |-> FALSE, ret |-> NoValue]
    /\ UNCHANGED <<now, runnerVars, clientVars, mouse, proc>>

\* `while time.time() - start < timeout`, and `return False` after the loop.
WaitWhile ==
    /\ wait.pc = "while"
    /\ wait' = IF now - wait.start < wait.timeout
                 THEN [wait EXCEPT !.pc = "if"]
                 ELSE [wait EXCEPT !.pc = "returned", !.ret = FALSE]
    /\ UNCHANGED <<now, runnerVars, clientVars, mouse, proc>>

\* `if <condition>: return True`: the condition takes its time and is
\* observed or not.
WaitCheck ==
    /\ wait.pc = "if"
    /\ \E took \in CheckTicks(wait.op), observed \in BOOLEAN :
           /\ now' = now + took
           /\ wait' = IF observed
                        THEN [wait EXCEPT !.pc = "returned", !.seen = TRUE, !.ret = TRUE]
                        ELSE [wait EXCEPT !.pc = "sleep", !.checks = @ + 1]
    /\ UNCHANGED <<runnerVars, clientVars, mouse, proc>>

\* `time.sleep(0.2)`
WaitSleep ==
    /\ wait.pc = "sleep"
    /\ now' = now + PollTicks
    /\ wait' = [wait EXCEPT !.pc = "while"]
    /\ UNCHANGED <<runnerVars, clientVars, mouse, proc>>

\* ------------------------------------------------------------------------
\* move_mouse_smoothly (user_input.py 64-129)
\* ------------------------------------------------------------------------
\* int(): truncation towards zero of n / d, d > 0.
Trunc(n, d) == IF n >= 0 THEN n \div d ELSE -((-n) \div d)

\* Where the pointer can be and where it is sent; what random.uniform(-1, 1)
\* draws, in halves; `variation`, in tenths; `speed`.
Points == {<<0, 0>>, <<3, 3>>, <<3, 4>>, <<-40, 30>>, <<130, 0>>, <<700, 100>>}
RandomDraws == {-2, -1, 0, 1, 2}
Variations == {0, 1}
Speeds == {0, 800}

\* dx * dx + dy * dy, the square of `distance`
SquaredDistance(current, target) ==
    (target[1] - current[1]) * (target[1] - current[1])
        + (target[2] - current[2]) * (target[2] - current[2])

\* `distance < 5`
IsShortMove(current, target) == SquaredDistance(current, target) < 25

\* steps = max(5, min(30, int(distance / 20)))
Steps(current, target) ==
    LET d2 == SquaredDistance(current, target)
        capped == CHOOSE k \in 0..30 :
                      /\ 400 * k * k <= d2
                      /\ k = 30 \/ 400 * (k + 1) * (k + 1) > d2
    IN IF capped < 5 THEN 5 ELSE capped

\* One coordinate of the point of the curve at t = i / steps, from the same
\* coordinate c of the start and g of the target, and the offset of the
\* control point: perp = off * variation * draw / 20 with off = -dy for x
\* and dx for y.  Computed in exact arithmetic over the denominator
\* 20 * steps * steps; at i = steps the floating-point terms are 0, 0 and
\* 1.0 * g, so that point is exact in the source as well.
BezierCoordinate(c, g, off, variation, draw, i, steps) ==
    Trunc(20 * (steps - i) * (steps - i) * c
              + 2 * (steps - i) * i * (10 * (c + g) + off * variation * draw)
              + 20 * i * i * g,
          20 * steps * steps)
BezierPoint(m, i) ==
    <<BezierCoordinate(m.current[1], m.target[1], -(m.target[2] - m.current[2]),
                       m.variation, m.draw_x, i, m.steps),
      BezierCoordinate(m.current[2], m.target[2], m.target[1] - m.current[1],
                       m.variation, m.draw_y, i, m.steps)>>

\* What the branch `if distance < 5` and the statement after the loop send
\* to xdotool mousemove.
DirectMoveNothing(target) == <<>>
DirectMove(target) == <<target>>
FinalMove(target) == <<target>>

NoMouse ==
    [pc |-> "idle", current |-> <<0, 0>>, target |-> <<0, 0>>, variation |-> 0,
     draw_x |-> 0, draw_y |-> 0, steps |-> 0, i |-> 0, moves |-> <<>>]

\* From the call to the for loop: the position is read, a short move is
\* made directly, and `distance / speed` divides by the speed given.
MoveMouseBegin ==
    /\ mouse.pc = "idle"
    /\ \E current \in Points, target \in Points, speed \in Speeds,
          variation \in Variations, draw_x \in RandomDraws, draw_y \in RandomDraws :
           LET m == [pc |-> "for", current |-> current, target |-> target,
                     variation |-> variation, draw_x |-> draw_x, draw_y |-> draw_y,
                     steps |-> Steps(current, target), i |-> 1, moves |-> <<>>]
           IN mouse' =
                  IF IsShortMove(current, target)
                    THEN [m EXCEPT !.pc = "returned", !.steps = 0,
                                   !.moves = DirectMove(target)]
                  ELSE IF speed = 0 THEN [m EXCEPT !.pc = "ZeroDivisionError"]
                  ELSE m
    /\ UNCHANGED <<runnerVars, clientVars, waitVars, proc>>

\* One iteration of `for i in range(1, steps + 1)`.
MoveMouseStep ==
    /\ mouse.pc = "for"
    /\ mouse.i <= mouse.steps
    /\ mouse' = [mouse EXCEPT !.moves = Append(@, BezierPoint(mouse, mouse.i)),
                              !.i = @ + 1]
    /\ UNCHANGED <<runnerVars, clientVars, waitVars, proc>>

\* After the loop: the move to the exact target, and the return.
MoveMouseEnd ==
    /\ mouse.pc = "for"
    /\ mouse.i > mouse.steps
    /\ mouse' = [mouse EXCEPT !.pc = "returned", !.moves = @ \o FinalMove(mouse.target)]
    /\ UNCHANGED <<runnerVars, clientVars, waitVars, proc>>

\* xdotool fails in _get_mouse_position or in a mousemove: _run raises
\* UserInputError and nothing more is sent.
MoveMouseFails ==
    /\ mouse.pc \in {"idle", "for"}
    /\ mouse' = [mouse EXCEPT !.pc = "UserInputError"]
    /\ UNCHANGED <<runnerVars, clientVars, waitVars, proc>>

\* No helper call is in progress.
NoProc == [op |-> "none", pc |-> "idle"]
ProcIdle == proc = NoProc

MouseIdle == mouse = NoMouse

WaitIdle == now = 0 /\ wait = NoWait
OtherIdle == WaitIdle /\ MouseIdle /\ ProcIdle

\* ------------------------------------------------------------------------
\* ModalHandler (modal_handler.py 22-45, 104-115, 184-274, 276-403)
\* ------------------------------------------------------------------------
\* A WindowInfo, without the position x, y, which only aims the button
\* click.  get_focused_window returns None when xdotool getactivewindow
\* fails or prints nothing; a WindowInfo never has an empty window_id, and
\* NoWindow stands for None.  Name, size and class of a window are empty or
\* 0 when the command that reads them fails.
NoWindow == [window_id |-> "", name |-> <<>>, width |-> 0, height |-> 0, wm_class |-> <<>>]
IsNone(w) == w.window_id = ""

\* WindowInfo.is_small_dialog
IsSmallDialogAnyWidth(w) == w.width < 500 /\ w.height < 400
IsSmallDialogPositiveHeight(w) ==
    w.width > 0 /\ w.width < 500 /\ w.height > 0 /\ w.height < 400
IsSmallDialog(w) == w.width > 0 /\ w.width < 500 /\ w.height < 400

\* WindowInfo.looks_like_alert
AlertKeywords ==
    {<<"alert">>, <<"error">>, <<"warning">>, <<"confirm">>, <<"delete">>, <<"save">>,
     <<"open">>, <<"choose">>, <<"panel">>}
LooksLikeAlert(w) ==
    \E kw \in AlertKeywords :
        Contains(Lower(w.name), kw) \/ Contains(Lower(w.wm_class), kw)

\* is_workspace_window
WorkspaceNames ==
    {<<"Workspace">>, <<"Inspector">>, <<"Info">>, <<"Finder">>, <<"Run">>,
     <<"Workspace", " ", "Preferences">>, <<"About">>, <<"Console">>, <<"Recycler">>,
     <<"Open", " ", "With">>, <<"Go", " ", "to", " ", "Folder">>}
IsWorkspaceWindow(w) ==
    \/ Contains(w.wm_class, <<"GNUstep">>)
    \/ Contains(w.wm_class, <<"Workspace">>)
    \/ \E name \in WorkspaceNames : Contains(w.name, name)

\* has_focus_stealer(expected_focus), focused being what get_focused_window
\* returned and expected_focus None or a text; `if expected_focus` is false
\* for None and for the empty text.
HasFocusStealer(focused, expected_focus) ==
    IF IsNone(focused) THEN FALSE
    ELSE IF expected_focus # PyNone /\ expected_focus[2] # <<>>
      THEN IF Contains(Lower(focused.name), Lower(expected_focus[2])) THEN FALSE
           ELSE IF IsWorkspaceWindow(focused)
             THEN LooksLikeAlert(focused) \/ IsSmallDialog(focused)
           ELSE TRUE
    ELSE IF IsWorkspaceWindow(focused) THEN LooksLikeAlert(focused)
    ELSE TRUE

\* detect_modal_dialog
KnownPanels == {<<"Inspector">>, <<"Finder">>, <<"Preferences">>, <<"Run">>}
DetectModalDialog(focused) ==
    IF IsNone(focused) THEN NoWindow
    ELSE IF LooksLikeAlert(focused) THEN focused
    ELSE IF /\ IsSmallDialog(focused) /\ IsWorkspaceWindow(focused)
            /\ ~\E p \in KnownPanels : Contains(focused.name, p)
      THEN focused
    ELSE NoWindow

\* In the operations below foci is what the successive calls of
\* get_focused_window return, in order.

\* `new_focus and initial_focus` and the comparison of their window ids
FocusChanged(initial_focus, new_focus) ==
    ~IsNone(new_focus) /\ ~IsNone(initial_focus)
        /\ new_focus.window_id # initial_focus.window_id

\* dismiss_with_escape(max_attempts): foci[1] is the initial focus,
\* foci[1 + i] the focus after the i-th Escape.
DismissWithEscape(foci, max_attempts) ==
    \E i \in 1..max_attempts : FocusChanged(foci[1], foci[1 + i])

\* dismiss_with_return
DismissWithReturn(foci) == FocusChanged(foci[1], foci[2])

\* click_button_in_dialog: whether the click was performed
ClickButtonInDialog(focused) == ~(IsNone(focused) \/ focused.width = 0)

\* close_window: sends alt+w and returns True
CloseWindow == TRUE

\* dismiss_focus_stealer(method).  With "auto" the two Escapes see foci[1]
\* to foci[3], the click foci[4] and has_focus_stealer() foci[5].
DismissFocusStealer(foci, method) ==
    IF method = "auto"
      THEN IF DismissWithEscape(foci, 2) THEN TRUE
           ELSE IF ClickButtonInDialog(foci[4]) /\ ~HasFocusStealer(foci[5], PyNone)
             THEN TRUE
           ELSE IF CloseWindow THEN TRUE
           ELSE FALSE
    ELSE IF method = "escape" THEN DismissWithEscape(foci, 3)
    ELSE IF method = "return" THEN DismissWithReturn(foci)
    ELSE IF method = "click" THEN ClickButtonInDialog(foci[1])
    ELSE IF method = "close" THEN CloseWindow
    ELSE FALSE

\* The input events a dismissal sends through _run_xdotool, in order.
\* dismiss_with_escape presses Escape until the focus has changed, at most
\* max_attempts times.
EscapePressesAlways(foci, max_attempts) == max_attempts
EscapePresses(foci, max_attempts) ==
    IF DismissWithEscape(foci, max_attempts)
      THEN CHOOSE i \in 1..max_attempts :
               /\ FocusChanged(foci[1], foci[1 + i])
               /\ \A j \in 1..(i - 1) : ~FocusChanged(foci[1], foci[1 + j])
      ELSE max_attempts
EscapeEvents(foci, max_attempts) ==
    [i \in 1..EscapePresses(foci, max_attempts) |-> "key Escape"]
ClickEvents(focused) ==
    IF ClickButtonInDialog(focused) THEN <<"mousemove", "click 1">> ELSE <<>>
CloseEvents == <<"key alt+w">>
DismissEvents(foci, method) ==
    IF method = "auto"
      THEN IF DismissWithEscape(foci, 2) THEN EscapeEvents(foci, 2)
           ELSE IF ClickButtonInDialog(foci[4]) /\ ~HasFocusStealer(foci[5], PyNone)
             THEN EscapeEvents(foci, 2) \o ClickEvents(foci[4])
           ELSE EscapeEvents(foci, 2) \o ClickEvents(foci[4]) \o CloseEvents
    ELSE IF method = "escape" THEN EscapeEvents(foci, 3)
    ELSE IF method = "return" THEN <<"key Return">>
    ELSE IF method = "click" THEN ClickEvents(foci[1])
    ELSE IF method = "close" THEN CloseEvents
    ELSE <<>>

\* The windows that can have the focus: every name, size and class below,
\* or none.
FocusNames == <<
    <<>>,                                       \* 1
    <<"Delete", " ", "Confirmation">>,          \* 2
    <<"Finder">>,                               \* 3
    <<"Info">>,                                 \* 4
    <<"Inspector">>,                            \* 5
    <<"Terminal">>,                             \* 6
    <<"finder">>,                               \* 7
    <<"Re", "open">> >>                         \* 8
FocusSizes ==
    {<<0, 0>>, <<300, 200>>, <<499, 399>>, <<500, 399>>, <<499, 400>>, <<1200, 800>>}
WmClasses == <<
    <<>>,                                                                       \* 1
    <<"WM_CLASS(STRING) = ", Q, "Workspace", Q, ", ", Q, "GNUstep", Q>>,        \* 2
    <<"WM_CLASS(STRING) = ", Q, "xterm", Q, ", ", Q, "XTerm", Q>>,              \* 3
    <<"WM_CLASS(STRING) = ", Q, "File", "Panel", Q, ", ", Q, "Gtk", Q>> >>      \* 4
Win(id, n, size, c) ==
    [window_id |-> id, name |-> FocusNames[n], width |-> size[1], height |-> size[2],
     wm_class |-> WmClasses[c]]
FocusPool ==
    {Win("0x1", n, size, c) :
        n \in 1..Len(FocusNames), size \in FocusSizes, c \in 1..Len(WmClasses)}
      \cup {NoWindow}

\* What expected_focus can be.
ExpectedFoci ==
    {PyNone, PyStr(<<>>), PyStr(<<"Info">>), PyStr(<<"terminal">>), PyStr(<<"Delete">>)}

\* The windows that take the focus in turn while a focus stealer is being
\* dismissed, and what `method` can be.
DismissPool ==
    {NoWindow, Win("0x2", 6, <<300, 200>>, 3), Win("0x3", 2, <<300, 200>>, 2),
     Win("0x4", 3, <<1200, 800>>, 2), Win("0x5", 6, <<0, 0>>, 3)}
FocusChanges == 6
Methods == {"auto", "escape", "return", "click", "close", "other"}

\* A call on a ModalHandler while the focus is as foci.
FinishModal(value, c) ==
    /\ call' = c
    /\ out' = [raised |-> "none", value |-> value]
    /\ UNCHANGED <<env, last_json, good, runnerVars, otherVars>>

DoDetectModalDialog(foci) ==
    /\ Len(foci) = 1
    /\ FinishModal(DetectModalDialog(foci[1]), [op |-> "detect_modal_dialog"])
DoHasFocusStealer(foci) ==
    /\ Len(foci) = 1
    /\ \E expected_focus \in ExpectedFoci :
           FinishModal(HasFocusStealer(foci[1], expected_focus),
                       [op |-> "has_focus_stealer", expected_focus |-> expected_focus])
DoDismissFocusStealer(foci) ==
    /\ Len(foci) = FocusChanges
    /\ \E method \in Methods :
           FinishModal(DismissFocusStealer(foci, method),
                       [op |-> "dismiss_focus_stealer", method |-> method,
                        sent |-> DismissEvents(foci, method)])

\* ------------------------------------------------------------------------
\* ensure_workspace_focused (modal_handler.py 405-431)
\* ------------------------------------------------------------------------
MaxAttempts == 3

\* What get_focused_window can return in a round: no window, a terminal,
\* an alert of the application, a small and a large application window,
\* and an application window whose geometry could not be read.
RoundFoci ==
    {NoWindow, Win("0x2", 6, <<300, 200>>, 3), Win("0x3", 2, <<300, 200>>, 2),
     Win("0x6", 4, <<300, 200>>, 2), Win("0x4", 3, <<1200, 800>>, 2),
     Win("0x7", 4, <<0, 0>>, 2)}

\* `focused and self.is_workspace_window(focused)` and the test inside.
IsNormalWorkspaceWindowAnySize(focused) ==
    ~IsNone(focused) /\ IsWorkspaceWindow(focused) /\ ~LooksLikeAlert(focused)
IsNormalWorkspaceWindow(focused) ==
    /\ ~IsNone(focused) /\ IsWorkspaceWindow(focused)
    /\ ~LooksLikeAlert(focused) /\ ~IsSmallDialog(focused)
IsWorkspaceModal(focused) ==
    /\ ~IsNone(focused) /\ IsWorkspaceWindow(focused)
    /\ LooksLikeAlert(focused) \/ IsSmallDialog(focused)

\* The call; `for i in range(max_attempts)` has made i rounds.  seen is the
\* focus each round found, done what each round then did.
EnsureBegin ==
    /\ proc.pc = "idle"
    /\ \E max_attempts \in 0..MaxAttempts :
           proc' = [op |-> "ensure_workspace_focused", pc |-> "for",
                    max_attempts |-> max_attempts, i |-> 0, seen |-> <<>>,
                    done |-> <<>>, ret |-> NoValue]
    /\ UNCHANGED notProc

\* focused = self.get_focused_window() and the tests on it.
EnsureObserve ==
    /\ proc.op = "ensure_workspace_focused" /\ proc.pc = "for"
    /\ proc.i < proc.max_attempts
    /\ \E focused \in RoundFoci :
           proc' = IF IsNormalWorkspaceWindow(focused)
                     THEN [proc EXCEPT !.seen = Append(@, focused), !.pc = "returned",
                                       !.ret = TRUE]
                   ELSE IF IsWorkspaceModal(focused)
                     THEN [proc EXCEPT !.seen = Append(@, focused), !.pc = "dismiss"]
                   ELSE [proc EXCEPT !.seen = Append(@, focused), !.pc = "search"]
    /\ UNCHANGED notProc

\* self.dismiss_focus_stealer(); its result is not used.
EnsureDismiss ==
    /\ proc.op = "ensure_workspace_focused" /\ proc.pc = "dismiss"
    /\ proc' = [proc EXCEPT !.done = Append(@, <<"dismiss_focus_stealer">>),
                            !.i = @ + 1, !.pc = "for"]
    /\ UNCHANGED notProc

\* xdotool search --name Workspace and, if it finds a window, windowactivate.
EnsureSearch ==
    /\ proc.op = "ensure_workspace_focused" /\ proc.pc = "search"
    /\ \E found \in BOOLEAN :
           proc' = [proc EXCEPT
                        !.done = Append(@, IF found THEN <<"search", "windowactivate">>
                                           ELSE <<"search">>),
                        !.i = @ + 1, !.pc = "for"]
    /\ UNCHANGED notProc

\* The loop is over: return False.
EnsureExhausted ==
    /\ proc.op = "ensure_workspace_focused" /\ proc.pc = "for"
    /\ proc.i >= proc.max_attempts
    /\ proc' = [proc EXCEPT !.pc = "returned", !.ret = FALSE]
    /\ UNCHANGED notProc

\* ------------------------------------------------------------------------
\* FailureCapture.take_screenshot (test_failure_capture.py 74-140)
\* ------------------------------------------------------------------------
\* What subprocess.run does with a tool: the program is missing
\* (FileNotFoundError), the run raises another error such as
\* TimeoutExpired ("error"), it exits with a nonzero code, or it exits
\* with 0 having written its output file.  A run that fails writes nothing.
ToolRuns == {"missing", "error", "nonzero", "ok"}
Tools == [scrot : ToolRuns, import : ToolRuns, xwd : ToolRuns, convert : ToolRuns]

\* A try block that runs one tool and returns if its exit code is 0.
ToolSaved(run) == run = "ok"

\* The last try block: xwd, then convert whatever xwd's exit code was, then
\* os.path.exists(filepath) and os.remove(xwd_file).  An error raised by
\* xwd skips convert; convert writes the picture only from a dump that xwd
\* wrote.
XwdWritten(t) == t.xwd = "ok"
ConvertRan(t) == t.xwd \in {"nonzero", "ok"}
ConvertWritten(t) == ConvertRan(t) /\ XwdWritten(t) /\ t.convert = "ok"
XwdSaved(t) == ConvertWritten(t)

\* The files in output_dir when the last try block is left: the dump is
\* removed only on the path that returns the picture.
XwdFiles(t) ==
    IF XwdSaved(t) THEN {"png"}
    ELSE IF XwdWritten(t) THEN {"xwd"}
    ELSE {}

\* take_screenshot: the value returned ("filepath" or "None"), the tools
\* run in order, and the files left in output_dir.
TakeScreenshot(t) ==
    IF ToolSaved(t.scrot)
      THEN [value |-> "filepath", ran |-> <<"scrot">>, files |-> {"png"}]
    ELSE IF ToolSaved(t.import)
      THEN [value |-> "filepath", ran |-> <<"scrot", "import">>, files |-> {"png"}]
    ELSE [value |-> IF XwdSaved(t) THEN "filepath" ELSE "None",
          ran |-> IF ConvertRan(t) THEN <<"scrot", "import", "xwd", "convert">>
                  ELSE <<"scrot", "import", "xwd">>,
          files |-> XwdFiles(t)]

DoTakeScreenshot ==
    /\ proc.pc = "idle"
    /\ \E t \in Tools :
           proc' = [op |-> "take_screenshot", pc |-> "returned", tools |-> t,
                    shot |-> TakeScreenshot(t)]
    /\ UNCHANGED notProc

\* ------------------------------------------------------------------------
\* The failure-capture wrappers: FailureCapture.on_failure
\* (test_failure_capture.py 346-378), test_with_capture and TestContext
\* (tests/test_utils.py 344-434)
\* ------------------------------------------------------------------------
\* The errors a wrapped function can raise.  KeyboardInterrupt is not a
\* subclass of Exception.
ExceptionSubclasses == {"AssertionError", "UITestError"}
Errors == ExceptionSubclasses \cup {"KeyboardInterrupt"}

\* What the wrapped function does: it returns a value or raises an error.
Bodies ==
    {[raised |-> "none", value |-> v] : v \in {"None", "Result"}}
        \cup {[raised |-> e, value |-> "None"] : e \in Errors}

\* `except Exception as e`
CaughtByExcept(e) == e \in ExceptionSubclasses

\* save_log (test_failure_capture.py 301-344): the path of the log file,
\* or None when writing it raised.
LogRuns == {"ok", "error"}
SaveLog(logrun) == IF logrun = "ok" THEN "filepath" ELSE "None"

\* The capture a wrapper makes for a failure: one take_screenshot call and
\* one save_log call, in this order.
NoCapture ==
    [did |-> <<>>, shot |-> [value |-> "None", ran |-> <<>>, files |-> {}],
     log_file |-> "None"]
CaptureFailure(t, logrun) ==
    [did |-> <<"take_screenshot", "save_log">>, shot |-> TakeScreenshot(t),
     log_file |-> SaveLog(logrun)]

\* The wrapper of on_failure: try the function; on an Exception capture and
\* `raise`.
OnFailure(body, t, logrun) ==
    IF body.raised = "none"
      THEN [raised |-> "none", value |-> body.value, capture |-> NoCapture]
    ELSE IF CaughtByExcept(body.raised)
      THEN [raised |-> body.raised, value |-> "None",
            capture |-> CaptureFailure(t, logrun)]
    ELSE [raised |-> body.raised, value |-> "None", capture |-> NoCapture]

\* The wrapper of test_with_capture: a modal detected before the test is
\* dismissed, then the same try block as on_failure.
DismissedBefore(focused) == ~IsNone(DetectModalDialog(focused))
TestWithCapture(body, t, logrun) == OnFailure(body, t, logrun)

\* ensure_clean_state as called by TestContext: what it does to the error
\* on its way out.  __exit__ calls it under `except: pass`.
CleanRuns == {"ok", "raises"}
ExitCleanupRaisedThrough(clean_after, cleanup) ==
    IF clean_after /\ cleanup = "raises" THEN "CleanupError" ELSE "none"
ExitCleanupRaised(clean_after, cleanup) == "none"

\* TestContext.__exit__: capture when the block raised and capture_on_failure
\* is set, clean up, `return False`.
ExitCapture(body, t, logrun, capture_on_failure) ==
    IF body.raised # "none" /\ capture_on_failure
      THEN CaptureFailure(t, logrun)
      ELSE NoCapture
TestContextExit(body, cleanup_raised, capture) ==
    [raised |-> IF cleanup_raised # "none" THEN cleanup_raised ELSE body.raised,
     value |-> body.value, capture |-> capture]

\* The focus when test_with_capture looks for a modal.
BeforeFoci ==
    {NoWindow, Win("0x3", 2, <<300, 200>>, 2), Win("0x4", 3, <<1200, 800>>, 2)}

DoOnFailure ==
    /\ proc.pc = "idle"
    /\ \E body \in Bodies, t \in Tools, logrun \in LogRuns :
           proc' = [op |-> "on_failure", pc |-> "returned", body |-> body,
                    entered |-> TRUE, capture_on_failure |-> TRUE,
                    clean_after |-> FALSE, cleanup |-> "ok",
                    dismissed |-> FALSE,
                    out |-> OnFailure(body, t, logrun)]
    /\ UNCHANGED notProc

DoTestWithCapture ==
    /\ proc.pc = "idle"
    /\ \E body \in Bodies, t \in Tools, logrun \in LogRuns, focused \in BeforeFoci :
           proc' = [op |-> "test_with_capture", pc |-> "returned", body |-> body,
                    entered |-> TRUE, capture_on_failure |-> TRUE,
                    clean_after |-> FALSE, cleanup |-> "ok",
                    dismissed |-> DismissedBefore(focused),
                    out |-> TestWithCapture(body, t, logrun)]
    /\ UNCHANGED notProc

\* `with TestContext(...)`: __enter__ cleans up first when clean_before is
\* set, and an error it raises leaves the statement before the block runs.
DoTestContext ==
    /\ proc.pc = "idle"
    /\ \E body \in Bodies, t \in Tools, logrun \in LogRuns,
          clean_before \in BOOLEAN, before \in CleanRuns,
          clean_after \in BOOLEAN, cleanup \in CleanRuns,
          capture_on_failure \in BOOLEAN :
           proc' = [op |-> "TestContext", pc |-> "returned", body |-> body,
                    entered |-> ~(clean_before /\ before = "raises"),
                    capture_on_failure |-> capture_on_failure,
                    clean_after |-> clean_after, cleanup |-> cleanup,
                    dismissed |-> FALSE,
                    out |-> IF clean_before /\ before = "raises"
                              THEN [raised |-> "CleanupError", value |-> "None",
                                    capture |-> NoCapture]
                              ELSE TestContextExit(body,
                                       ExitCleanupRaised(clean_after, cleanup),
                                       ExitCapture(body, t, logrun, capture_on_failure))]
    /\ UNCHANGED notProc

\* ------------------------------------------------------------------------
\* _run_command, statement by statement (uitest.py 133-166)
\* ------------------------------------------------------------------------
\* Where the call goes after an error raised inside the try body: to one
\* of the two handlers, which raise CommandFailedError.  Nothing leads back
\* to subprocess.run.
AfterErrorRetry(body) == "run"
AfterError(body) == "except"

\* `cmd = [self.uitest_path] + list(args)`
RunCommandBegin ==
    /\ proc.pc = "idle"
    /\ \E e \in LiteralEnvs \cup {NotCompleted("timeout"), NotCompleted("spawn error")} :
           proc' = [op |-> "_run_command", pc |-> "run", e |-> e, spawned |-> 0,
                    pending |-> "none", out |-> NoOut]
    /\ UNCHANGED notProc

\* subprocess.run(cmd, capture_output=True, text=True, timeout=10), the
\* test of stderr and the return statement.
RunCommandSpawn ==
    /\ proc.op = "_run_command" /\ proc.pc = "run"
    /\ LET body == RunCommandTry(ReplyOf(proc.e), last_json)
       IN proc' = IF body.raised = "none"
                    THEN [proc EXCEPT !.pc = "returned", !.spawned = @ + 1,
                                      !.out = [raised |-> "none", value |-> body.value]]
                    ELSE [proc EXCEPT !.pc = AfterError(body), !.spawned = @ + 1,
                                      !.pending = body.raised]
    /\ UNCHANGED notProc

\* `except subprocess.TimeoutExpired` and `except Exception as e`
RunCommandExcept ==
    /\ proc.op = "_run_command" /\ proc.pc = "except"
    /\ proc' = [proc EXCEPT !.pc = "raised",
                            !.out = [raised |-> "CommandFailedError", value |-> PyNone]]
    /\ UNCHANGED notProc

\* ------------------------------------------------------------------------
\* The geometry get_window_info records (modal_handler.py 119-161)
\* ------------------------------------------------------------------------
\* What `xdotool getwindowgeometry --shell` prints after WIDTH= and HEIGHT=:
\* an integer, or text int() rejects.  Without output nothing is parsed.
WidthTexts == {-500, -1, 0, 1, 250, 499, 500, 501, 1200}
HeightTexts == {-400, -1, 0, 1, 200, 399, 400, 401, 800}
NotANumber == <<"text", 0>>
NumberText(T) == {<<"int", n>> : n \in T} \cup {NotANumber}
Unreadable == [printed |-> FALSE, WIDTH |-> NotANumber, HEIGHT |-> NotANumber]
Geometries ==
    {Unreadable}
        \cup [printed : {TRUE}, WIDTH : NumberText(WidthTexts),
              HEIGHT : NumberText(HeightTexts)]

\* `try: width = int(v) ... except: pass` on top of `width = 0`
IntOrKeep(v) == IF v[1] = "int" THEN v[2] ELSE 0
WindowGeometry(geom_out) ==
    IF ~geom_out.printed THEN [width |-> 0, height |-> 0]
    ELSE [width |-> IntOrKeep(geom_out.WIDTH), height |-> IntOrKeep(geom_out.HEIGHT)]

\* get_window_info followed by a read of is_small_dialog.
DoGetWindowInfo ==
    /\ proc.pc = "idle"
    /\ \E geom_out \in Geometries :
           proc' = [op |-> "get_window_info", pc |-> "returned", geom_out |-> geom_out,
                    info |-> WindowGeometry(geom_out),
                    is_small_dialog |-> IsSmallDialog(WindowGeometry(geom_out))]
    /\ UNCHANGED notProc

\* ------------------------------------------------------------------------
\* pre_click_check (modal_handler.py 433-479)
\* ------------------------------------------------------------------------
\* The windows that can have the focus at each reading.
PreClickFoci ==
    {NoWindow, Win("0x2", 6, <<300, 200>>, 3), Win("0x3", 2, <<300, 200>>, 2),
     Win("0x6", 4, <<300, 200>>, 2), Win("0x4", 3, <<1200, 800>>, 2)}

\* The windows that have the focus in turn during a dismissal.
DuringDismissal ==
    {Win("0x3", 2, <<300, 200>>, 2), Win("0x6", 4, <<300, 200>>, 2),
     Win("0x4", 3, <<1200, 800>>, 2)}

\* The strategy by which dismiss_focus_stealer("auto") returns True, and the
\* focus its has_focus_stealer() saw after the click.
DismissedBy(foci) ==
    IF DismissWithEscape(foci, 2) THEN "escape"
    ELSE IF ClickButtonInDialog(foci[4]) /\ ~HasFocusStealer(foci[5], PyNone) THEN "click"
    ELSE IF CloseWindow THEN "close"
    ELSE "none"
Dismissal(foci) ==
    [ret |-> DismissFocusStealer(foci, "auto"), by |-> DismissedBy(foci),
     verified |-> IF DismissedBy(foci) = "click" THEN foci[5] ELSE NoWindow]
NoDismissal == [ret |-> FALSE, by |-> "not called", verified |-> NoWindow]

\* result = {...}; focused = self.get_focused_window()
PreClickBegin ==
    /\ proc.pc = "idle"
    /\ \E focused \in PreClickFoci :
           proc' = [op |-> "pre_click_check", pc |-> "detect", ok |-> TRUE,
                    focused_window |-> focused.name, modal |-> NoWindow,
                    first |-> NoDismissal, checked |-> NoWindow, stealer |-> FALSE,
                    second |-> NoDismissal, actions_taken |-> <<>>]
    /\ UNCHANGED notProc

\* modal = self.detect_modal_dialog()
PreClickDetect ==
    /\ proc.op = "pre_click_check" /\ proc.pc = "detect"
    /\ \E focused \in PreClickFoci :
           proc' = IF IsNone(DetectModalDialog(focused))
                     THEN [proc EXCEPT !.pc = "stealer"]
                     ELSE [proc EXCEPT !.pc = "dismiss modal", !.modal = focused,
                                       !.actions_taken = Append(@, "Detected modal")]
    /\ UNCHANGED notProc

\* if self.dismiss_focus_stealer(): ... else: result['ok'] = False
PreClickDismissModal ==
    /\ proc.op = "pre_click_check" /\ proc.pc = "dismiss modal"
    /\ \E foci \in [1..FocusChanges -> DuringDismissal] :
           proc' = [proc EXCEPT
                        !.pc = "stealer", !.first = Dismissal(foci),
                        !.ok = DismissFocusStealer(foci, "auto"),
                        !.actions_taken =
                            Append(@, IF DismissFocusStealer(foci, "auto")
                                        THEN "Dismissed modal"
                                        ELSE "Failed to dismiss modal")]
    /\ UNCHANGED notProc

\* if self.has_focus_stealer():
PreClickStealer ==
    /\ proc.op = "pre_click_check" /\ proc.pc = "stealer"
    /\ \E focused \in PreClickFoci :
           proc' = IF HasFocusStealer(focused, PyNone)
                     THEN [proc EXCEPT !.pc = "dismiss stealer", !.checked = focused,
                                       !.stealer = TRUE,
                                       !.actions_taken = Append(@, "Focus stealer detected")]
                     ELSE [proc EXCEPT !.pc = "returned", !.checked = focused]
    /\ UNCHANGED notProc

\* the second dismiss_focus_stealer() and `return result`
PreClickDismissStealer ==
    /\ proc.op = "pre_click_check" /\ proc.pc = "dismiss stealer"
    /\ \E foci \in [1..FocusChanges -> DuringDismissal] :
           proc' = [proc EXCEPT
                        !.pc = "returned", !.second = Dismissal(foci),
                        !.ok = IF DismissFocusStealer(foci, "auto") THEN @ ELSE FALSE,
                        !.actions_taken =
                            IF DismissFocusStealer(foci, "auto")
                              THEN Append(@, "Dismissed focus stealer") ELSE @]
    /\ UNCHANGED notProc

\* ------------------------------------------------------------------------
\* drag (user_input.py 369-391) over _run (user_input.py 44-50)
\* ------------------------------------------------------------------------
\* The end points of a drag, and the number of points of the curve a smooth
\* move passes before its target (move_mouse_smoothly, checked on its own).
DragPoints == {<<10, 10>>, <<400, 300>>}
MaxCurve == 2

\* How a _run call can fail: xdotool exits nonzero (UserInputError), or
\* does not come back within 10 s (TimeoutExpired).
RunFailures == {"UserInputError", "TimeoutExpired"}

\* The statement after a move, by the position of the move in drag.
AfterMove(pc) == IF pc = "move to start" THEN "mousedown" ELSE "mouseup"

DragBegin ==
    /\ proc.pc = "idle"
    /\ \E smooth \in BOOLEAN, from \in DragPoints, to \in DragPoints,
          curve \in 0..MaxCurve :
           proc' = [op |-> "drag", pc |-> "move to start", smooth |-> smooth,
                    from |-> from, to |-> to, curve |-> IF smooth THEN curve ELSE 0,
                    left |-> IF smooth THEN curve ELSE 0,
                    sent |-> <<>>, raised |-> "none"]
    /\ UNCHANGED notProc

\* One mousemove of a smooth move before its target.
DragCurveStep ==
    /\ proc.op = "drag" /\ proc.pc \in {"move to start", "move to end"}
    /\ proc.left > 0
    /\ proc' = [proc EXCEPT !.left = @ - 1,
                            !.sent = Append(@, <<"mousemove", "curve">>)]
    /\ UNCHANGED notProc

\* The mousemove to the start or the end point, and the sleep after it.
DragMove ==
    /\ proc.op = "drag" /\ proc.pc \in {"move to start", "move to end"}
    /\ proc.left = 0
    /\ proc' = [proc EXCEPT
                    !.pc = AfterMove(proc.pc), !.left = proc.curve,
                    !.sent = Append(@, <<"mousemove",
                                        IF proc.pc = "move to start" THEN proc.from
                                                                     ELSE proc.to>>)]
    /\ UNCHANGED notProc

\* self._run("mousedown", "1")
DragMouseDown ==
    /\ proc.op = "drag" /\ proc.pc = "mousedown"
    /\ proc' = [proc EXCEPT !.pc = "move to end",
                            !.sent = Append(@, <<"mousedown", "1">>)]
    /\ UNCHANGED notProc

\* self._run("mouseup", "1") and the return
DragMouseUp ==
    /\ proc.op = "drag" /\ proc.pc = "mouseup"
    /\ proc' = [proc EXCEPT !.pc = "returned",
                            !.sent = Append(@, <<"mouseup", "1">>)]
    /\ UNCHANGED notProc

\* The xdotool call of the current statement fails: _run raises, and drag,
\* which has no handler, is left with the error.
DragRunFails ==
    /\ proc.op = "drag"
    /\ proc.pc \in {"move to start", "mousedown", "move to end", "mouseup"}
    /\ \E error \in RunFailures :
           proc' = [proc EXCEPT !.pc = "raised", !.raised = error]
    /\ UNCHANGED notProc

\* ------------------------------------------------------------------------
\* The loops that drive the application: close_extra_viewers and
\* dismiss_all_modals (tests/test_utils.py 170-187, 77-108) and
\* dismiss_modal_dialogs (uitest.py 678-702)
\* ------------------------------------------------------------------------
MaxVisible == 3
MaxRounds == 3

\* What get_visible_windows returns: the classes of the visible windows.
VisibleLists == SeqsUpTo({"GWViewerWindow", "NSPanel"}, MaxVisible)

\* [w for w in visible if w.get('class') == 'GWViewerWindow']
IsViewer(class) == class = "GWViewerWindow"
Viewers(visible) == SelectSeq(visible, IsViewer)

\* `while len(viewers) > keep`
GoesOn(viewers, keep) == Len(viewers) > keep

\* The first reading of the windows, up to the loop test.
CloseViewersBegin ==
    /\ proc.pc = "idle"
    /\ \E keep \in 0..MaxVisible, visible \in VisibleLists :
           proc' = [op |-> "close_extra_viewers", pc |-> "while", keep |-> keep,
                    viewers |-> Viewers(visible), raised |-> "none"]
    /\ UNCHANGED notProc

\* The loop test: one more round, or the return.
CloseViewersWhile ==
    /\ proc.op = "close_extra_viewers" /\ proc.pc = "while"
    /\ proc' = [proc EXCEPT !.pc = IF GoesOn(proc.viewers, proc.keep)
                                     THEN "cmd w" ELSE "returned"]
    /\ UNCHANGED notProc

\* user.cmd('w'), the sleep and the next reading of the windows: the
\* application shows whatever windows it shows then, or the key or the
\* query raises.
CloseViewersRound ==
    /\ proc.op = "close_extra_viewers" /\ proc.pc = "cmd w"
    /\ \/ \E visible \in VisibleLists :
              proc' = [proc EXCEPT !.pc = "while", !.viewers = Viewers(visible)]
       \/ \E error \in {"UserInputError", "CommandFailedError"} :
              proc' = [proc EXCEPT !.pc = "raised", !.raised = error]
    /\ UNCHANGED notProc

\* dismiss_all_modals(max_attempts): dismissed = 0 and the for statement.
DismissAllBegin ==
    /\ proc.pc = "idle"
    /\ \E max_attempts \in 0..MaxRounds :
           proc' = [op |-> "dismiss_all_modals", pc |-> "for",
                    max_attempts |-> max_attempts, i |-> 0, dismissed |-> 0,
                    escapes |-> 0, ret |-> -1]
    /\ UNCHANGED notProc

\* One `modal = handler.detect_modal_dialog()` and the break; or the end
\* of the range.
DismissAllDetect ==
    /\ proc.op = "dismiss_all_modals" /\ proc.pc = "for"
    /\ IF proc.i < proc.max_attempts
         THEN \E focused \in PreClickFoci :
                  proc' = IF IsNone(DetectModalDialog(focused))
                            THEN [proc EXCEPT !.pc = "returned", !.ret = proc.dismissed]
                            ELSE [proc EXCEPT !.pc = "dismiss"]
         ELSE proc' = [proc EXCEPT !.pc = "returned", !.ret = proc.dismissed]
    /\ UNCHANGED notProc

\* The dismissal of the round, with the Escape fallback.
DismissAllDismiss ==
    /\ proc.op = "dismiss_all_modals" /\ proc.pc = "dismiss"
    /\ \E foci \in [1..FocusChanges -> DuringDismissal] :
           proc' = [proc EXCEPT
                        !.pc = "for", !.i = @ + 1, !.dismissed = @ + 1,
                        !.escapes = IF DismissFocusStealer(foci, "auto") THEN @ ELSE @ + 1]
    /\ UNCHANGED notProc

\* dismiss_modal_dialogs(max_attempts)
DismissDialogsBegin ==
    /\ proc.pc = "idle"
    /\ \E max_attempts \in 0..MaxRounds :
           proc' = [op |-> "dismiss_modal_dialogs", pc |-> "for",
                    max_attempts |-> max_attempts, i |-> 0, dismissed |-> 0,
                    raised |-> "none", ret |-> -1]
    /\ UNCHANGED notProc

\* One `if not self.has_modal_dialog(): break`, has_modal_dialog answering
\* or raising; or the end of the range.
DismissDialogsCheck ==
    /\ proc.op = "dismiss_modal_dialogs" /\ proc.pc = "for"
    /\ IF proc.i < proc.max_attempts
         THEN \/ proc' = [proc EXCEPT !.pc = "returned", !.ret = proc.dismissed]
              \/ proc' = [proc EXCEPT !.pc = "escape"]
              \/ proc' = [proc EXCEPT !.pc = "raised", !.raised = "CommandFailedError"]
         ELSE proc' = [proc EXCEPT !.pc = "returned", !.ret = proc.dismissed]
    /\ UNCHANGED notProc

\* xdotool key Escape through subprocess.run with timeout=5, and the sleep.
DismissDialogsEscape ==
    /\ proc.op = "dismiss_modal_dialogs" /\ proc.pc = "escape"
    /\ \/ proc' = [proc EXCEPT !.pc = "for", !.i = @ + 1, !.dismissed = @ + 1]
       \/ \E error \in {"TimeoutExpired", "FileNotFoundError"} :
              proc' = [proc EXCEPT !.pc = "raised", !.raised = error]
    /\ UNCHANGED notProc

ClientIdle ==
    /\ last_json = PyNone
    /\ env = NoEnv
    /\ call = NoCall
    /\ out = NoOut
    /\ good = NoDoc

RunnerIdle ==
    /\ tests = <<>>
    /\ stop_on_failure = FALSE
    /\ highlight_failures = FALSE
    /\ has_client = FALSE
    /\ rpc = "not called"
    /\ idx = 0
    /\ results = <<>>
    /\ invoked = <<>>
    /\ hl_last = "none"
    /\ ret = NoValue

\* --- One call on a client, for every behaviour of the bridge ---
\* The client is fresh, or has cached document 3 in an earlier call.
StaleDoc == <<"lit", 3>>
StaleObject == PyDict(DictOfPairs(<< <<<<"a">>, PyTrue>> >>))

CallInit ==
    /\ RunnerIdle
    /\ OtherIdle
    /\ env \in Envs
    /\ call = NoCall
    /\ out = NoOut
    /\ \/ last_json = PyNone /\ good = NoDoc
       \/ last_json = StaleObject /\ good = StaleDoc

\* Nothing has been called yet.
Fresh == call.op = "none"

CallNext ==
    \/ Fresh /\ DoRunCommand(env)
    \/ Fresh /\ DoExtractJson(env)
    \/ Fresh /\ DoQueryUiState(env)
    \/ Fresh /\ DoOpenAboutDialog(env)
    \/ Fresh /\ DoSimpleCommand(env)
    \/ Fresh /\ DoGetUiAtCoordinate(env)
    \/ Fresh /\ DoGetLastJsonResponse
    \/ Fresh /\ DoTestWorkspaceResponding(env)
    \/ Fresh /\ DoWindowExists(env)
    \/ Fresh /\ DoTextVisible(env)
    \/ Fresh /\ DoGetVisibleWindows(env)
    \/ Fresh /\ DoGetWindowTitles(env)
    \/ Fresh /\ DoGetModalWindows(env)
    \/ Fresh /\ DoHasModalDialog(env)
    \/ Fresh /\ DoCountElementsByClass(env)
    \/ Fresh /\ DoGetElementByText(env)
    \/ Fresh /\ DoGetVisibleTextInWindow(env)
    \/ Fresh /\ DoAssertTextContains(env)
    \/ Fresh /\ DoIsMenuItemEnabled(env)
    \/ Fresh /\ DoGetEnabledMenuItems(env)
    \/ Fresh /\ DoGetDisabledMenuItems(env)
    \/ Fresh /\ DoWaitForWindow(env)

SpecCall == CallInit /\ [][CallNext]_vars

\* --- Sequences of commands on one client ---
ClientInit == RunnerIdle /\ ClientIdle /\ OtherIdle

ClientNext ==
    \/ \E e \in SequenceEnvs : DoRunCommand(e)
    \/ \E e \in SequenceEnvs : DoExtractJson(e)
    \/ \E e \in SequenceEnvs : DoQueryUiState(e)
    \/ \E e \in SequenceEnvs : DoOpenAboutDialog(e)
    \/ \E e \in SequenceEnvs : DoSimpleCommand(e)
    \/ \E e \in SequenceEnvs : DoGetUiAtCoordinate(e)
    \/ \E e \in SequenceEnvs : DoWindowExists(e)
    \/ DoGetLastJsonResponse

SpecClient == ClientInit /\ [][ClientNext]_vars

\* --- run_tests ---
RunnerInit ==
    /\ tests \in SeqsUpTo(Outcomes, MaxTests)
    /\ stop_on_failure \in BOOLEAN
    /\ highlight_failures \in BOOLEAN
    /\ has_client \in BOOLEAN
    /\ rpc = "start"
    /\ idx = 0
    /\ results = <<>>
    /\ invoked = <<>>
    /\ hl_last = "none"
    /\ ret = NoValue
    /\ ClientIdle
    /\ OtherIdle

RunnerNext ==
    \/ RunTestsEmpty
    \/ RunTestsBegin
    \/ TestReturns
    \/ TestRaisesAssertion
    \/ TestRaisesOther
    \/ RunTestsReturn

SpecRunner == RunnerInit /\ [][RunnerNext]_vars

\* --- One polling wait, for every timing of its condition ---
WaitInit == RunnerIdle /\ ClientIdle /\ OtherIdle

WaitNext ==
    \/ WaitBegin
    \/ WaitWhile
    \/ WaitCheck
    \/ WaitSleep

SpecWait == WaitInit /\ [][WaitNext]_vars

\* --- One move_mouse_smoothly, for every start, target and random draw ---
MouseInit == RunnerIdle /\ ClientIdle /\ OtherIdle

MouseNext ==
    \/ MoveMouseBegin
    \/ MoveMouseStep
    \/ MoveMouseEnd
    \/ MoveMouseFails

SpecMouse == MouseInit /\ [][MouseNext]_vars

\* --- One ensure_workspace_focused, for every focus in every round ---
FocusInit == RunnerIdle /\ ClientIdle /\ OtherIdle

FocusNext ==
    \/ EnsureBegin
    \/ EnsureObserve
    \/ EnsureDismiss
    \/ EnsureSearch
    \/ EnsureExhausted

SpecFocus == FocusInit /\ [][FocusNext]_vars

\* --- run_interactive_tests, for every test sequence and keyword ---
InteractiveInit == RunnerIdle /\ ClientIdle /\ OtherIdle

InteractiveNext ==
    \/ RunInteractiveTests
    \/ RunTestsBegin
    \/ PausedTestReturns
    \/ TestRaisesAssertion
    \/ TestRaisesOther
    \/ RunTestsReturn

SpecInteractive == InteractiveInit /\ [][InteractiveNext]_vars

\* --- One get_window_info, for every geometry xdotool prints ---
GeometryInit == RunnerIdle /\ ClientIdle /\ OtherIdle

GeometryNext ==
    \/ DoGetWindowInfo

SpecGeometry == GeometryInit /\ [][GeometryNext]_vars

\* --- One pre_click_check, for every focus at every reading ---
PreClickInit == RunnerIdle /\ ClientIdle /\ OtherIdle

PreClickNext ==
    \/ PreClickBegin
    \/ PreClickDetect
    \/ PreClickDismissModal
    \/ PreClickStealer
    \/ PreClickDismissStealer

SpecPreClick == PreClickInit /\ [][PreClickNext]_vars

\* --- One drag, for every failure of xdotool ---
DragInit == RunnerIdle /\ ClientIdle /\ OtherIdle

DragNext ==
    \/ DragBegin
    \/ DragCurveStep
    \/ DragMove
    \/ DragMouseDown
    \/ DragMouseUp
    \/ DragRunFails

SpecDrag == DragInit /\ [][DragNext]_vars

\* --- One loop that drives the application ---
LoopsInit == RunnerIdle /\ ClientIdle /\ OtherIdle

LoopsNext ==
    \/ CloseViewersBegin
    \/ CloseViewersWhile
    \/ CloseViewersRound
    \/ DismissAllBegin
    \/ DismissAllDetect
    \/ DismissAllDismiss
    \/ DismissDialogsBegin
    \/ DismissDialogsCheck
    \/ DismissDialogsEscape

\* The interpreter runs the next statement of a call in progress; every
\* xdotool and bridge call comes back within its timeout.
SpecLoops == LoopsInit /\ [][LoopsNext]_vars /\ WF_vars(LoopsNext)

\* --- One _run_command, statement by statement ---
SpawnInit == RunnerIdle /\ ClientIdle /\ OtherIdle

SpawnNext ==
    \/ RunCommandBegin
    \/ RunCommandSpawn
    \/ RunCommandExcept

\* The interpreter runs the next statement of a call in progress, and
\* subprocess.run comes back within its timeout.
SpecSpawn == SpawnInit /\ [][SpawnNext]_vars /\ WF_vars(SpawnNext)

\* --- One call on a FailureCapture, for every behaviour of the tools ---
CaptureInit == RunnerIdle /\ ClientIdle /\ OtherIdle

CaptureNext ==
    \/ DoTakeScreenshot
    \/ DoOnFailure
    \/ DoTestWithCapture
    \/ DoTestContext

SpecCapture == CaptureInit /\ [][CaptureNext]_vars

\* --- One call on a ModalHandler, for every focus ---
\* env is what get_focused_window returns, call by call: one window for
\* the checks, FocusChanges of them for a dismissal.
ModalInit ==
    /\ RunnerIdle
    /\ OtherIdle
    /\ last_json = PyNone
    /\ good = NoDoc
    /\ call = NoCall
    /\ out = NoOut
    /\ env \in {<<w>> : w \in FocusPool} \cup [1..FocusChanges -> DismissPool]

ModalNext ==
    \/ Fresh /\ DoDetectModalDialog(env)
    \/ Fresh /\ DoHasFocusStealer(env)
    \/ Fresh /\ DoDismissFocusStealer(env)

SpecModal == ModalInit /\ [][ModalNext]_vars

\* ------------------------------------------------------------------------
\* Properties of run_tests
\* ------------------------------------------------------------------------

\* The outcomes that the runner's contract counts as failures.
FailureKinds == {"False", "AssertionFailedError", "Exception"}

\* Position of the first failing test of ts (0 when none fails).
FirstFailure(ts) ==
    IF \E k \in 1..Len(ts) : ts[k] \in FailureKinds
      THEN CHOOSE k \in 1..Len(ts) :
             /\ ts[k] \in FailureKinds
             /\ \A j \in 1..(k - 1) : ts[j] \notin FailureKinds
      ELSE 0

\* C1: when run_tests has returned, its value is 0 exactly when every test
\* it invoked passed and 1 otherwise; a run halted before the end of the
\* list returned 1, and a run given no tests returned 0.
C1_ExitStatusContract ==
    rpc = "done" =>
        /\ ret \in {0, 1}
        /\ (ret = 0) <=> (\A k \in 1..Len(invoked) : tests[invoked[k]] \notin FailureKinds)
        /\ (Len(invoked) < Len(tests) => ret = 1)
        /\ (tests = <<>> => ret = 0)

\* A run stopped by stop_on_failure before the last test has returned 1.
C1_Witness ==
    /\ rpc = "done"
    /\ stop_on_failure
    /\ Len(invoked) >= 1
    /\ Len(invoked) < Len(tests)
    /\ ret = 1

\* C2: a test is recorded as failed exactly when its callable returned
\* False or raised (AssertionFailedError or another Exception); every
\* other return value is recorded as a pass; whichever of the three kinds
\* the failure is, it ends the loop under stop_on_failure and makes the
\* exit status 1.
C2_FailureKindsEquivalent ==
    /\ Len(results) = Len(invoked)
    /\ \A k \in 1..Len(results) :
           results[k] = (tests[invoked[k]] \notin FailureKinds)
    /\ \A kind \in FailureKinds :
           /\ (stop_on_failure /\ invoked # <<>>
                 /\ tests[invoked[Len(invoked)]] = kind) => rpc \in {"summary", "done"}
           /\ (rpc = "done" /\ \E k \in 1..Len(invoked) : tests[invoked[k]] = kind)
                 => ret = 1

\* A finished run in which a False return, an AssertionFailedError and
\* another Exception were each recorded as a failure.
C2_Witness ==
    /\ rpc = "done"
    /\ ~stop_on_failure
    /\ tests = <<"False", "AssertionFailedError", "Exception">>
    /\ results = <<FALSE, FALSE, FALSE>>
    /\ ret = 1

\* C3: the callables are invoked in list order, each at most once; with
\* stop_on_failure none is invoked after the first failing one, so the
\* number executed is the position of the first failure; without it every
\* callable has been invoked exactly once when the loop ends.
C3_InvocationOrder ==
    /\ \A k \in 1..Len(invoked) : invoked[k] = k
    /\ stop_on_failure =>
           \A k \in 1..(Len(invoked) - 1) : tests[invoked[k]] \notin FailureKinds
    /\ (rpc \in {"summary", "done"} /\ stop_on_failure /\ FirstFailure(tests) # 0)
           => Len(invoked) = FirstFailure(tests)
    /\ (rpc \in {"summary", "done"} /\ (~stop_on_failure \/ FirstFailure(tests) = 0))
           => Len(invoked) = Len(tests)

\* A stop_on_failure run of three tests that stopped at the second.
C3_Witness ==
    /\ rpc = "done"
    /\ stop_on_failure
    /\ Len(tests) = 3
    /\ FirstFailure(tests) = 2
    /\ invoked = <<1, 2>>

\* What a run records and returns, from the outcomes of the callables and
\* stop_on_failure alone.
ExpectedExecuted ==
    IF stop_on_failure /\ FirstFailure(tests) # 0 THEN FirstFailure(tests) ELSE Len(tests)
ExpectedResults == [k \in 1..ExpectedExecuted |-> tests[k] \notin FailureKinds]

\* C12: an error raised while run_tests queries the UI state or sends the
\* highlight for a failed assertion is swallowed: run_tests goes on, the
\* test is recorded as failed once, stop_on_failure is honoured, and the
\* results and the exit status are what they are when the highlight
\* succeeds or is disabled.
C12_HighlightErrorsSwallowed ==
    hl_last \in HighlightErrors
        => /\ rpc \in {"loop", "summary", "done"}
           /\ Len(results) = Len(invoked)
           /\ \A k \in 1..Len(results) : results[k] = ExpectedResults[k]
           /\ stop_on_failure => rpc \in {"summary", "done"}
           /\ rpc = "done"
                  => /\ results = ExpectedResults
                     /\ ret = (IF FirstFailure(tests) = 0 THEN 0 ELSE 1)
C12_Witness ==
    /\ rpc = "done"
    /\ hl_last = "highlight raised"
    /\ highlight_failures /\ has_client
    /\ ~stop_on_failure
    /\ tests = <<"AssertionFailedError", "True">>
    /\ results = <<FALSE, TRUE>>
    /\ ret = 1

\* ------------------------------------------------------------------------
\* Properties of _run_command
\* ------------------------------------------------------------------------

\* The bridge completed and its stderr holds 'Cannot contact Workspace'
\* (text 4 of StderrTexts is the one that does).
SentinelReply(e) == e.kind = "completed" /\ e.err = 4

\* C4: when the completed bridge's stderr contains 'Cannot contact
\* Workspace', the caller of _run_command observes
\* WorkspaceNotRunningError, whatever the exit code, and
\* test_workspace_responding (its client constructed) returns False.
C4_SentinelRaisesNotRunning ==
    /\ (call.op = "_run_command" /\ SentinelReply(env))
           => out.raised = "WorkspaceNotRunningError"
    /\ (call.op = "test_workspace_responding" /\ call.ctor = "ok" /\ SentinelReply(env))
           => (out.raised = "none" /\ out.value = PyFalse)

\* C5: a bridge run that completes without the sentinel in stderr makes
\* _run_command return (stdout, stderr, exit code) and raise nothing,
\* whatever the exit code.
C5_CompletedReplyReturned ==
    (call.op = "_run_command" /\ env.kind = "completed" /\ ~SentinelReply(env))
        => /\ out.raised = "none"
           /\ out.value = PyTuple(<<PyStr(StdoutText(env)), PyStr(StderrTexts[env.err]),
                                    PyInt(env.code)>>)
C5_Witness ==
    /\ call.op = "_run_command"
    /\ env.kind = "completed"
    /\ env.err = 1
    /\ env.code = 1
    /\ out.raised = "none"

\* ------------------------------------------------------------------------
\* Properties of _extract_json and get_last_json_response
\* ------------------------------------------------------------------------

\* The objects that the valid literal documents denote, written by hand.
LiteralObject == <<
    PyDict(<<"a">> :> PyNum("1")),
    PyDict(<<>>),
    PyDict(<<"a">> :> PyTrue),
    PyDict(<<"success">> :> PyFalse @@ <<"a">> :> PyList(<<PyNum("1"), PyNone>>)),
    PyDict(<<"found">> :> PyTrue) >>

\* C6: for an output made of preamble lines (none starting with "{" once
\* trimmed) followed by a valid JSON document, _extract_json returns the
\* object of that document, the same for every preamble.
C6_PreambleIgnored ==
    (call.op = "_extract_json" /\ DocIsValid(env.doc))
        => /\ out.raised = "none"
           /\ env.doc[1] = "lit" => out.value = LiteralObject[env.doc[2]]
           /\ env.doc[1] = "ui" => out.value = JsonLoads(DocText(env.doc)).val
C6_Witness ==
    /\ call.op = "_extract_json"
    /\ env.pre = <<1, 3>>
    /\ env.doc = <<"lit", 4>>
    /\ out.raised = "none"
    /\ out.value = LiteralObject[4]

\* The object of the most recent successful extraction (None before it).
GoodObject == IF good = NoDoc THEN PyNone ELSE LiteralObject[good[2]]

\* The last call attempted an extraction, from a text that is not one
\* JSON object, and lets the error out.
FailedExtraction ==
    /\ ~DocIsValid(env.doc)
    /\ \/ call.op = "_extract_json"
       \/ call.op = "simple_command" /\ ReachesCaller(env)
       \/ call.op \in {"query_ui_state", "open_about_dialog"}
            /\ ReachesCaller(env) /\ env.code = 0

\* C7: after any sequence of commands the cached response is the object of
\* the most recent successful extraction; get_last_json_response returns
\* it, and raises before the first successful extraction; a failing
\* extraction raises and leaves the cache as it was.
C7_LastResponseIsLatestSuccess ==
    /\ last_json = GoodObject
    /\ call.op = "get_last_json_response"
           => IF good = NoDoc
                THEN out.raised = "UITestException"
                ELSE out.raised = "none" /\ out.value = GoodObject
    /\ FailedExtraction => out.raised = "UITestException"
C7_Witness ==
    /\ call.op = "_extract_json"
    /\ FailedExtraction
    /\ out.raised = "UITestException"
    /\ good = <<"lit", 1>>
    /\ last_json = LiteralObject[1]

\* ------------------------------------------------------------------------
\* Properties of the query helpers
\* ------------------------------------------------------------------------

\* The query behind a helper yields a snapshot: the bridge completes
\* without the sentinel, exits with 0 and prints one JSON object.
QuerySucceeds(e) == ReachesCaller(e) /\ e.code = 0 /\ DocIsValid(e.doc)

\* The windows of the snapshot that was queried (none when the document is
\* not a snapshot).
ShownWindows(e) ==
    IF e.doc[1] = "ui" THEN {e.doc[2][i] : i \in 1..Len(e.doc[2])} ELSE {}

\* Facts about the windows of WindowPool, written by hand: the names each
\* window carries under `title` or `windowTitle`, and the texts of the
\* elements reachable from it through `children`.
WindowNames == << {<<"Info">>}, {<<"Finder">>}, {<<"Finder">>}, {<<"Delete">>} >>
ChildrenTexts == << {T_WORK, T_ok}, {}, {T_ok, T_Work}, {} >>

\* C8: window_exists(t) never raises; it returns True exactly when the
\* query succeeds and some window of the snapshot has `title` or
\* `windowTitle` equal to t, and False otherwise.
C8_WindowExists ==
    call.op = "window_exists"
        => /\ out.raised = "none"
           /\ out.value = PyBool(/\ QuerySucceeds(env)
                                 /\ \E w \in ShownWindows(env) : call.text \in WindowNames[w])
C8_Witness ==
    /\ call.op = "window_exists"
    /\ QuerySucceeds(env)
    /\ env.doc = <<"ui", <<2>>>>
    /\ call.text = <<"Finder">>
    /\ out.value = PyTrue

\* The helpers that are not assertions, with the value each returns for
\* `not found`.
NotFound ==
    [window_exists |-> PyFalse, text_visible |-> PyFalse,
     count_elements_by_class |-> PyInt(0), get_element_by_text |-> PyNone,
     get_visible_text_in_window |-> PyList(<<>>), get_visible_windows |-> PyList(<<>>),
     get_window_titles |-> PyList(<<>>), get_modal_windows |-> PyList(<<>>),
     has_modal_dialog |-> PyFalse]

\* C9: each of the nine helpers returns its `not found` value, and raises
\* nothing, when the bridge command or the JSON extraction fails.
C9_HelpersNeverRaise ==
    (call.op \in DOMAIN NotFound /\ ~QuerySucceeds(env))
        => (out.raised = "none" /\ out.value = NotFound[call.op])

\* Whether an element text holds the query, written by hand for the
\* queries of Texts and the element texts of WindowPool.
Hits(case_sensitive) ==
    IF case_sensitive
      THEN {<<<<"W", "o">>, T_Work>>, <<<<"O", "R">>, T_WORK>>}
      ELSE {<<<<"w", "o", "r", "k">>, T_WORK>>, <<<<"w", "o", "r", "k">>, T_Work>>,
            <<<<"W", "o">>, T_WORK>>, <<<<"W", "o">>, T_Work>>,
            <<<<"O", "R">>, T_WORK>>, <<<<"O", "R">>, T_Work>>}

\* C10: on a snapshot, text_visible(text, case_sensitive) returns True
\* exactly when some element reachable from a window through `children`
\* has a `text` holding the query as a substring, letter case being
\* ignored when case_sensitive is False; the other elements do not matter.
C10_TextVisible ==
    (call.op = "text_visible" /\ QuerySucceeds(env))
        => /\ out.raised = "none"
           /\ out.value = PyBool(\E w \in ShownWindows(env) : \E t \in ChildrenTexts[w] :
                                     <<call.text, t>> \in Hits(call.cs))
C10_Witness ==
    /\ call.op = "text_visible"
    /\ QuerySucceeds(env)
    /\ env.doc = <<"ui", <<1>>>>
    /\ call.text = <<"w", "o", "r", "k">>
    /\ ~call.cs
    /\ out.value = PyTrue

\* ------------------------------------------------------------------------
\* Properties of the assertions
\* ------------------------------------------------------------------------

\* The pairs of an expected text and an actual text that does not hold it,
\* written by hand.
NotHeld == {<<T_ok, PyStr(T_WORK)>>, <<<<"O", "R">>, PyStr(T_ok)>>}

\* C11: assert_text_contains called with an actual_text that does not hold
\* expected_text raises AssertionFailedError in every case, whatever
\* becomes of the highlight it triggers first.
C11_AssertionNotMasked ==
    (call.op = "assert_text_contains" /\ <<call.text, call.arg>> \in NotHeld)
        => out.raised = "AssertionFailedError"

\* ------------------------------------------------------------------------
\* Properties of the menu helpers
\* ------------------------------------------------------------------------

\* Facts about the menus of MenuPool, written by hand: the title of each,
\* its items that are not separators as <<menu title, item title>>, those
\* with `enabled` true and the others (`enabled` false or absent).
MenuTitleOf == << <<"File">>, <<"Edit">>, <<"Info">> >>
EnabledOf == <<
    << << <<"File">>, <<"Open">> >> >>,
    << << <<"Edit">>, <<"Cut">> >> >>,
    << >> >>
DisabledOf == <<
    << << <<"File">>, <<"New Folder">> >>, << <<"File">>, <<"Duplicate">> >> >>,
    << << <<"Edit">>, <<"Open">> >> >>,
    << >> >>

\* The menus of the snapshot that was queried, in order (none when the
\* document is not a menu snapshot).
ShownMenus(e) == IF e.doc[1] = "menu" THEN e.doc[2] ELSE <<>>

\* Whether item is in the table's list for pool menu m.
Listed(table, m, menu, item) ==
    \E i \in 1..Len(table[m]) : table[m][i] = <<menu, item>>

\* C13: on a menu snapshot, is_menu_item_enabled(menu, item) raises
\* UITestException when no menu has that title or the menu has no item of
\* that title; for an item that is present it raises nothing and returns
\* the item's enabled flag, False for a disabled item.
C13_MenuItemEnabled ==
    (call.op = "is_menu_item_enabled" /\ QuerySucceeds(env))
        => LET shown == ShownMenus(env)
               item == call.arg[2]
               on == \E k \in 1..Len(shown) : Listed(EnabledOf, shown[k], call.text, item)
               off == \E k \in 1..Len(shown) : Listed(DisabledOf, shown[k], call.text, item)
           IN IF on \/ off
                THEN out.raised = "none" /\ out.value = PyBool(on)
                ELSE out.raised = "UITestException"
C13_Witness ==
    /\ call.op = "is_menu_item_enabled"
    /\ QuerySucceeds(env)
    /\ env.doc = <<"menu", <<1, 2>>>>
    /\ call.text = <<"File">>
    /\ call.arg = PyStr(<<"New Folder">>)
    /\ out.raised = "none"
    /\ out.value = PyFalse

\* The listed items of the menus mn in scope, in order.
RECURSIVE ExpectedItems(_, _, _)
ExpectedItems(table, mn, scope) ==
    IF mn = <<>> THEN <<>>
    ELSE (IF scope = PyNone \/ scope = PyStr(MenuTitleOf[Head(mn)])
            THEN table[Head(mn)] ELSE <<>>)
         \o ExpectedItems(table, Tail(mn), scope)

\* The <<menu, title>> of every item of a returned list, `menu` being read
\* from the item.
ReturnedItems(list) ==
    [i \in 1..Len(list[2]) |->
        <<DictGet(list[2][i], "menu", PyNone)[2], DictGet(list[2][i], "title", PyNone)[2]>>]

\* C14: on one menu snapshot get_enabled_menu_items returns the items with
\* `enabled` true and get_disabled_menu_items the other items, of every
\* menu in scope (all menus, or the one with the title given), separators
\* left out of both, each item carrying its menu's title under 'menu': the
\* two lists partition the non-separator items in scope.
C14_MenuItemsPartition ==
    /\ (call.op = "get_enabled_menu_items" /\ QuerySucceeds(env))
           => /\ out.raised = "none"
              /\ ReturnedItems(out.value) = ExpectedItems(EnabledOf, ShownMenus(env), call.arg)
    /\ (call.op = "get_disabled_menu_items" /\ QuerySucceeds(env))
           => /\ out.raised = "none"
              /\ ReturnedItems(out.value) = ExpectedItems(DisabledOf, ShownMenus(env), call.arg)
C14_Witness ==
    /\ call.op = "get_disabled_menu_items"
    /\ QuerySucceeds(env)
    /\ env.doc = <<"menu", <<1, 2>>>>
    /\ call.arg = PyStr(<<"File">>)
    /\ ReturnedItems(out.value) =
           << << <<"File">>, <<"New Folder">> >>, << <<"File">>, <<"Duplicate">> >> >>

\* ------------------------------------------------------------------------
\* Properties of the waits
\* ------------------------------------------------------------------------

\* The bridge is healthy and the window never appears: left to run, the
\* command prints the failure result {"success": false, ...}.
WindowNeverAppears(e) == e.kind = "completed" /\ e.doc = <<"lit", 4>> /\ e.err # 4

\* C15: wait_for_window(title, timeout) never raises when the window does
\* not appear; it returns the failure result for every timeout, those of
\* ten seconds and more included.
C15_WaitForWindowNeverRaises ==
    (call.op = "wait_for_window" /\ WindowNeverAppears(call.bridge))
        => /\ out.raised = "none"
           /\ out.value = LiteralObject[4]

\* C16: a polling wait whose condition is never observed returns False,
\* no earlier than its timeout after it started and no later than its
\* timeout plus one poll interval.
C16_PollingWaitTiming ==
    (wait.pc = "returned" /\ ~wait.seen)
        => /\ wait.ret = FALSE
           /\ now - wait.start >= wait.timeout
           /\ now - wait.start <= wait.timeout + PollTicks

\* The parts of C16 that hold of every polling wait: False is returned,
\* True never, and never before the timeout has passed.
WaitReturnsFalseAfterTimeout ==
    (wait.pc = "returned" /\ ~wait.seen)
        => /\ wait.ret = FALSE
           /\ now - wait.start >= wait.timeout

\* The upper bound holds when no evaluation of the condition takes time,
\* as in wait_for_file.
WaitForFileTiming ==
    (wait.pc = "returned" /\ ~wait.seen /\ wait.op = "wait_for_file")
        => now - wait.start <= wait.timeout + PollTicks

\* ------------------------------------------------------------------------
\* Properties of move_mouse_smoothly
\* ------------------------------------------------------------------------

\* C17: a move_mouse_smoothly that completes has sent the exact target as
\* its last mouse position, whatever the start, the distance and the
\* random draws.
C17_EndsAtTarget ==
    mouse.pc = "returned"
        => /\ mouse.moves # <<>>
           /\ mouse.moves[Len(mouse.moves)] = mouse.target

\* A curved move of 30 steps with both draws nonzero whose first point is
\* off the straight line has completed, and so has a direct move.
C17_Witness ==
    /\ mouse.pc = "returned"
    /\ mouse.current = <<0, 0>>
    /\ mouse.target = <<700, 100>>
    /\ mouse.variation = 1 /\ mouse.draw_x = 2 /\ mouse.draw_y = -2
    /\ Len(mouse.moves) = 31
    /\ mouse.moves[15] = <<345, 15>>
    /\ mouse.moves[1] = <<22, -1>>

\* ------------------------------------------------------------------------
\* Properties of the ModalHandler
\* ------------------------------------------------------------------------

\* What is known of the names and classes of FocusPool, listed by hand:
\* which contain one of the nine keywords in any case, which are those of
\* an application window, which names contain the name of a known panel,
\* and which window names contain which expected title in any case.
AlertLikeNames == {FocusNames[2], FocusNames[8]}
AlertLikeClasses == {WmClasses[4]}
ApplicationNames == {FocusNames[3], FocusNames[4], FocusNames[5]}
ApplicationClasses == {WmClasses[2]}
PanelNames == {FocusNames[3], FocusNames[5]}
TitleHits ==
    {<<FocusNames[4], PyStr(<<"Info">>)>>, <<FocusNames[6], PyStr(<<"terminal">>)>>,
     <<FocusNames[2], PyStr(<<"Delete">>)>>}
AlertLike(w) == w.name \in AlertLikeNames \/ w.wm_class \in AlertLikeClasses
OfApplication(w) == w.name \in ApplicationNames \/ w.wm_class \in ApplicationClasses

\* C18 as stated: detect_modal_dialog returns the focused window exactly
\* when it looks like an alert or is a small application window
\* (width < 500 and height < 400) whose name contains no known panel;
\* otherwise, and without a focused window, it returns none.
C18_DetectModalAsStated ==
    call.op = "detect_modal_dialog"
        => LET w == env[1]
           IN IF /\ ~IsNone(w)
                 /\ \/ AlertLike(w)
                    \/ /\ w.width < 500 /\ w.height < 400
                       /\ OfApplication(w)
                       /\ w.name \notin PanelNames
                THEN out.value = w
                ELSE out.value = NoWindow

\* C18, amended: as stated, but a small window has 0 < width < 500 and
\* height < 400; a window whose width reads 0 is not small.
C18_DetectModal ==
    call.op = "detect_modal_dialog"
        => LET w == env[1]
           IN IF /\ ~IsNone(w)
                 /\ \/ AlertLike(w)
                    \/ /\ w.width > 0 /\ w.width < 500 /\ w.height < 400
                       /\ OfApplication(w)
                       /\ w.name \notin PanelNames
                THEN out.value = w
                ELSE out.value = NoWindow

\* The 300 x 200 application window named Info, which is no alert, has
\* been returned.
C18_Witness ==
    /\ call.op = "detect_modal_dialog"
    /\ env[1] = Win("0x1", 4, <<300, 200>>, 2)
    /\ out.value = env[1]

\* The two windows of the claim's example: the 300 x 200 Delete
\* Confirmation is returned, the 1200 x 800 Finder is not.
ScenarioE ==
    call.op = "detect_modal_dialog"
        => \A c \in 1..Len(WmClasses) :
               /\ env[1] = Win("0x1", 2, <<300, 200>>, c) => out.value = env[1]
               /\ env[1] = Win("0x1", 3, <<1200, 800>>, c) /\ c # 4
                      => out.value = NoWindow

\* C19: has_focus_stealer(expected_focus) is true exactly when the focused
\* window is not an application window, or is one that looks like a modal
\* (small dialog or alert) and does not match expected_focus; the same rule
\* with and without expected_focus.
C19_FocusStealerRule ==
    (call.op = "has_focus_stealer" /\ ~IsNone(env[1]))
        => LET w == env[1]
               small == w.width > 0 /\ w.width < 500 /\ w.height < 400
           IN out.value =
                  (\/ ~OfApplication(w)
                   \/ /\ small \/ AlertLike(w)
                      /\ <<w.name, call.expected_focus>> \notin TitleHits)

\* What has_focus_stealer does instead.  Without expected_focus the small
\* dialog heuristic is not applied; with it, a focused window that matches
\* is never a focus stealer, application window or not.
FocusStealerOmitted ==
    (/\ call.op = "has_focus_stealer" /\ ~IsNone(env[1])
     /\ call.expected_focus \in {PyNone, PyStr(<<>>)})
        => LET w == env[1]
           IN out.value = (~OfApplication(w) \/ AlertLike(w))
FocusStealerGiven ==
    (/\ call.op = "has_focus_stealer" /\ ~IsNone(env[1])
     /\ call.expected_focus \notin {PyNone, PyStr(<<>>)})
        => LET w == env[1]
               small == w.width > 0 /\ w.width < 500 /\ w.height < 400
           IN out.value = (/\ <<w.name, call.expected_focus>> \notin TitleHits
                           /\ ~OfApplication(w) \/ small \/ AlertLike(w))

\* The windows of DismissPool that steal the focus: the two terminal
\* windows and the Delete Confirmation alert.
Stealers ==
    {Win("0x2", 6, <<300, 200>>, 3), Win("0x3", 2, <<300, 200>>, 2),
     Win("0x5", 6, <<0, 0>>, 3)}

\* C20: dismiss_focus_stealer('auto') returns False when the same focus
\* stealer is still focused after the Escape presses, the button click and
\* the window-close key.
C20_AutoReportsFailure ==
    (/\ call.op = "dismiss_focus_stealer"
     /\ call.method = "auto"
     /\ \E w \in Stealers : \A k \in 1..FocusChanges : env[k] = w)
        => out.value = FALSE

\* What dismiss_focus_stealer('auto') does instead: close_window returns
\* True whatever happens to the focus, so `return False` is never reached.
AutoAlwaysTrue ==
    (call.op = "dismiss_focus_stealer" /\ call.method = "auto") => out.value = TRUE

\* The window ids of DismissPool, listed by hand; "" where no window is
\* focused.  Differs(a, b): both are windows and their ids differ.
PoolIds == {"", "0x2", "0x3", "0x4", "0x5"}
Differs(a, b) == a.window_id # "" /\ b.window_id # "" /\ a.window_id # b.window_id

\* The focus stealers among the windows of DismissPool without expected
\* title, and the windows a click can aim at, by id.
StealerIds == {"0x2", "0x3", "0x5"}
ClickableIds == {"0x2", "0x3", "0x4"}

\* C21: under 'auto' the events are sent in the order Escape (one press
\* if the focus changed after the first, else two), then the button click,
\* then the close key; the click is sent only if no Escape changed the
\* focus, the close key only if moreover the click did not clear the focus
\* stealer; at most five events are sent.
C21_AutoStrategyOrder ==
    (call.op = "dismiss_focus_stealer" /\ call.method = "auto")
        => LET first == Differs(env[1], env[2])
               second == Differs(env[1], env[3])
               clicked == env[4].window_id \in ClickableIds
               cleared == clicked /\ env[5].window_id \notin StealerIds
               escapes == IF first THEN <<"key Escape">>
                          ELSE <<"key Escape", "key Escape">>
               click == IF clicked THEN <<"mousemove", "click 1">> ELSE <<>>
           IN /\ Len(call.sent) <= 5
              /\ call.sent =
                     IF first \/ second THEN escapes
                     ELSE IF cleared THEN escapes \o click
                     ELSE escapes \o click \o <<"key alt+w">>

\* The focus changed after the first Escape only (and was back after what
\* would have been the second): one Escape was sent and nothing else.
C21_Witness ==
    /\ call.op = "dismiss_focus_stealer" /\ call.method = "auto"
    /\ env[1].window_id = "0x3" /\ env[2].window_id = "0x4" /\ env[3].window_id = "0x3"
    /\ call.sent = <<"key Escape">>
    /\ out.value = TRUE

\* All three strategies were used, in order.
AllStrategiesUsed ==
    /\ call.op = "dismiss_focus_stealer" /\ call.method = "auto"
    /\ call.sent = <<"key Escape", "key Escape", "mousemove", "click 1", "key alt+w">>

\* ------------------------------------------------------------------------
\* Properties of ensure_workspace_focused
\* ------------------------------------------------------------------------

\* The windows of RoundFoci by id, listed by hand: the normal application
\* windows, the modals of the application, and the rest (the terminal and
\* no window).
NormalIds == {"0x4", "0x7"}
ModalIds == {"0x3", "0x6"}

\* C22: ensure_workspace_focused(max_attempts) observes the focus at most
\* max_attempts times; it returns True exactly when an observation finds a
\* normal application window, False once the attempts are exhausted; every
\* unsuccessful round dismisses (a modal of the application) or searches
\* and activates (any other window).
C22_EnsureWorkspaceFocused ==
    proc.op = "ensure_workspace_focused"
        => /\ Len(proc.seen) <= proc.max_attempts
           /\ proc.i <= proc.max_attempts
           /\ \A k \in 1..Len(proc.done) :
                  /\ proc.seen[k].window_id \notin NormalIds
                  /\ IF proc.seen[k].window_id \in ModalIds
                       THEN proc.done[k] = <<"dismiss_focus_stealer">>
                       ELSE proc.done[k][1] = "search"
           /\ proc.pc = "returned"
                  => /\ proc.ret = (\E k \in 1..Len(proc.seen) :
                                       proc.seen[k].window_id \in NormalIds)
                     /\ proc.ret = TRUE
                            => /\ proc.seen[Len(proc.seen)].window_id \in NormalIds
                               /\ Len(proc.done) = Len(proc.seen) - 1
                     /\ proc.ret = FALSE
                            => /\ Len(proc.seen) = proc.max_attempts
                               /\ Len(proc.done) = proc.max_attempts

\* After a modal was dismissed and a terminal had the focus, the third
\* round found the application window whose geometry reads 0 x 0.
C22_Witness ==
    /\ proc.op = "ensure_workspace_focused" /\ proc.pc = "returned"
    /\ proc.ret = TRUE
    /\ proc.max_attempts = 3
    /\ proc.done = << <<"dismiss_focus_stealer">>, <<"search", "windowactivate">> >>
    /\ proc.seen[3].window_id = "0x7"

\* ------------------------------------------------------------------------
\* Properties of FailureCapture
\* ------------------------------------------------------------------------

\* C23: take_screenshot runs scrot, then import, then xwd and convert, each
\* only after the ones before it failed; it returns the path as soon as
\* one succeeds; when all fail it returns None and leaves no file.
C23_ScreenshotFallback ==
    proc.op = "take_screenshot"
        => LET t == proc.tools
               shot == proc.shot
               third == t.xwd = "ok" /\ t.convert = "ok"
           IN IF t.scrot = "ok"
                THEN shot.value = "filepath" /\ shot.ran = <<"scrot">>
              ELSE IF t.import = "ok"
                THEN shot.value = "filepath" /\ shot.ran = <<"scrot", "import">>
              ELSE /\ shot.ran[1] = "scrot" /\ shot.ran[2] = "import"
                   /\ shot.ran[3] = "xwd"
                   /\ IF third THEN shot.value = "filepath" /\ shot.files = {"png"}
                      ELSE shot.value = "None" /\ shot.files = {}

\* What holds instead when all three fail: None is returned, and the only
\* file that can be left is the dump xwd wrote.
ScreenshotFailureLeavesDump ==
    (proc.op = "take_screenshot" /\ proc.shot.value = "None")
        => /\ proc.shot.files \subseteq {"xwd"}
           /\ proc.shot.files = {"xwd"} <=> proc.tools.xwd = "ok"

\* C24: when the function under a failure-capture wrapper raises an
\* Exception, that same error leaves the wrapper, after exactly one
\* screenshot attempt and one log save wherever capture is on; nothing the
\* capture or the cleanup does replaces or suppresses it.  When the
\* function returns, its result is returned and no screenshot is attempted
\* and no log is saved.
CaptureWrappers == {"on_failure", "test_with_capture", "TestContext"}
C24_FailurePropagates ==
    (proc.op \in CaptureWrappers /\ proc.entered)
        => IF proc.body.raised = "none"
             THEN /\ proc.out.raised = "none"
                  /\ proc.out.value = proc.body.value
                  /\ proc.out.capture.did = <<>>
                  /\ proc.out.capture.shot.files = {}
                  /\ proc.out.capture.log_file = "None"
             ELSE /\ proc.out.raised = proc.body.raised
                  /\ (proc.body.raised \in {"AssertionError", "UITestError"}
                          /\ proc.capture_on_failure)
                        => proc.out.capture.did = <<"take_screenshot", "save_log">>

\* A failing block under TestContext whose cleanup raises as well, with no
\* screenshot tool working and the log not writable.
C24_Witness ==
    /\ proc.op = "TestContext" /\ proc.entered
    /\ proc.body.raised = "AssertionError"
    /\ proc.clean_after /\ proc.cleanup = "raises"
    /\ proc.capture_on_failure
    /\ proc.out.capture.shot.value = "None"
    /\ proc.out.capture.log_file = "None"
    /\ proc.out.raised = "AssertionError"

\* An error that is not an Exception passes through the two decorators
\* uncaptured; TestContext captures it.
InterruptNotCaptured ==
    (proc.op \in CaptureWrappers /\ proc.entered
        /\ proc.body.raised = "KeyboardInterrupt")
        => /\ proc.out.raised = "KeyboardInterrupt"
           /\ proc.out.capture.did # <<>>
                <=> (proc.op = "TestContext" /\ proc.capture_on_failure)

\* ------------------------------------------------------------------------
\* Properties of _run_command
\* ------------------------------------------------------------------------

\* C25: a _run_command call spawns one subprocess, never a second one, and
\* then ends in one outcome, the triple or a raised error; a subprocess
\* that runs into the time limit ends the call with CommandFailedError.
RunCommandEnded == proc.op = "_run_command" /\ proc.pc \in {"returned", "raised"}
RunCommandOnce ==
    proc.op = "_run_command"
        => /\ proc.spawned <= 1
           /\ proc.pc = "run" <=> proc.spawned = 0
           /\ RunCommandEnded
                => /\ proc.pc = "returned"
                        <=> (proc.out.raised = "none" /\ proc.out.value[1] = "tuple")
                   /\ proc.pc = "raised" <=> proc.out.raised # "none"
                   /\ proc.e.kind = "timeout" => proc.out.raised = "CommandFailedError"
C25_OneSpawnOneOutcome ==
    /\ []RunCommandOnce
    /\ (proc.op = "_run_command") ~> RunCommandEnded

\* A call whose subprocess ran into the time limit has ended.
C25_Witness ==
    /\ RunCommandEnded /\ proc.e.kind = "timeout"
    /\ proc.spawned = 1 /\ proc.out.raised = "CommandFailedError"

\* ------------------------------------------------------------------------
\* Properties of run_interactive_tests
\* ------------------------------------------------------------------------

\* What run_tests does with stop_on_failure = stop on a test sequence: the
\* number of callables it invokes and its exit status.
ReferenceInvoked(ts, stop) ==
    IF stop /\ FirstFailure(ts) # 0 THEN FirstFailure(ts) ELSE Len(ts)
ReferenceStatus(ts) == IF FirstFailure(ts) # 0 THEN 1 ELSE 0

\* run_tests itself follows the reference.
RunTestsFollowsReference ==
    (rpc = "done" /\ proc.pc = "idle")
        => /\ invoked = [k \in 1..ReferenceInvoked(tests, stop_on_failure) |-> k]
           /\ ret = ReferenceStatus(tests)

\* C27: with a pause that can be slept, run_interactive_tests invokes the
\* callables run_tests invokes and returns the status run_tests returns,
\* for stop_on_failure = True unless the caller passed it, and for
\* highlight_failures = True unless the caller passed it; the pause comes
\* after every callable that returns and at no other point.
Interactive == proc.op = "run_interactive_tests"
C27_InteractiveAsRunTests ==
    (Interactive /\ proc.pause_between >= 0)
        => /\ stop_on_failure = (proc.stop_kw # "False")
           /\ highlight_failures = (proc.highlight_kw # "False")
           /\ \A k \in 1..Len(invoked) : invoked[k] = k
           /\ Len(invoked) <= ReferenceInvoked(tests, proc.stop_kw # "False")
           /\ \A k \in 1..Len(proc.pauses) :
                  /\ proc.pauses[k] \in 1..Len(invoked)
                  /\ tests[proc.pauses[k]] \in {"True", "None", "Dict", "Zero", "False"}
                  /\ k > 1 => proc.pauses[k - 1] < proc.pauses[k]
           /\ \A k \in 1..Len(invoked) :
                  tests[k] \in {"True", "None", "Dict", "Zero", "False"}
                      => \E j \in 1..Len(proc.pauses) : proc.pauses[j] = k
           /\ rpc = "done"
                => /\ Len(invoked) = ReferenceInvoked(tests, proc.stop_kw # "False")
                   /\ ret = ReferenceStatus(tests)

\* The caller passed stop_on_failure=False and the run went on after a
\* failure, pausing after the callables that returned.
C27_Witness ==
    /\ Interactive /\ rpc = "done"
    /\ proc.stop_kw = "False" /\ proc.pause_between = 5
    /\ tests = <<"False", "AssertionFailedError", "True">>
    /\ invoked = <<1, 2, 3>>
    /\ proc.pauses = <<1, 3>>
    /\ ret = 1

\* With the default, the run stops at the first failure.
InteractiveStopsByDefault ==
    /\ Interactive /\ rpc = "done"
    /\ proc.stop_kw = "absent"
    /\ tests = <<"True", "Exception", "True">>
    /\ invoked = <<1, 2>>
    /\ proc.pauses = <<1>>

\* A negative pause turns every returning callable into a failure.
NegativePauseFails ==
    (Interactive /\ rpc = "done" /\ proc.pause_between < 0 /\ tests # <<>>)
        => ret = 1

\* ------------------------------------------------------------------------
\* Properties of WindowInfo.is_small_dialog
\* ------------------------------------------------------------------------

\* C26 as stated: is_small_dialog is true exactly when width < 500 and
\* height < 400, for every geometry, the all-zero one of an unreadable
\* geometry included.
C26_SmallDialogAsStated ==
    proc.op = "get_window_info"
        => /\ proc.is_small_dialog = (proc.info.width < 500 /\ proc.info.height < 400)
           /\ ~proc.geom_out.printed
                => (proc.info.width = 0 /\ proc.info.height = 0)

\* C26, amended: is_small_dialog is true exactly when 0 < width < 500 and
\* height < 400; the all-zero geometry of an unreadable window is not
\* small.
C26_SmallDialog ==
    proc.op = "get_window_info"
        => /\ proc.is_small_dialog
                = (0 < proc.info.width /\ proc.info.width < 500 /\ proc.info.height < 400)
           /\ ~proc.geom_out.printed
                => (proc.info.width = 0 /\ proc.info.height = 0 /\ ~proc.is_small_dialog)

\* A window one pixel wide with a negative height is small.
C26_Witness ==
    /\ proc.op = "get_window_info"
    /\ proc.info = [width |-> 1, height |-> -1]
    /\ proc.is_small_dialog

\* The geometry could not be read and the window is not small.
UnreadableNotSmall ==
    /\ proc.op = "get_window_info"
    /\ ~proc.geom_out.printed
    /\ ~proc.is_small_dialog

\* ------------------------------------------------------------------------
\* Properties of pre_click_check
\* ------------------------------------------------------------------------

\* C28: a window detect_modal_dialog reported as modal is a focus stealer
\* for has_focus_stealer() as well: when pre_click_check finds the detected
\* window focused at its has_focus_stealer() call, the call returns true,
\* and the click strategy of a dismissal is never verified against the
\* window that was detected.
C28_ModalIsFocusStealer ==
    (proc.op = "pre_click_check" /\ proc.modal.window_id # "")
        => /\ (proc.pc \in {"dismiss stealer", "returned"} /\ proc.checked = proc.modal)
                => proc.stealer
           /\ proc.first.by = "click" => proc.first.verified # proc.modal

\* What holds instead: a detected window that looks like an alert is a
\* focus stealer; a detected window that does not is none.
AlertModalIsFocusStealer ==
    (proc.op = "pre_click_check" /\ proc.modal.window_id # ""
        /\ proc.pc \in {"dismiss stealer", "returned"} /\ proc.checked = proc.modal)
        => (proc.stealer <=> proc.modal.window_id = "0x3")

\* pre_click_check has returned ok for a detected window that kept the
\* focus throughout.
PreClickOkWithModalFocused ==
    /\ proc.op = "pre_click_check" /\ proc.pc = "returned"
    /\ proc.modal.window_id = "0x6" /\ proc.checked = proc.modal
    /\ proc.first.by = "click" /\ proc.first.verified = proc.modal
    /\ proc.ok /\ ~proc.stealer

\* ------------------------------------------------------------------------
\* Properties of drag
\* ------------------------------------------------------------------------
Downs(sent) == {k \in 1..Len(sent) : sent[k][1] = "mousedown"}
Ups(sent) == {k \in 1..Len(sent) : sent[k][1] = "mouseup"}

\* The events of a drag come in the order moves, button down, moves,
\* button up, with the moves ending at the start and at the end point.
DragOrder ==
    proc.op = "drag"
        => /\ Cardinality(Downs(proc.sent)) <= 1
           /\ Cardinality(Ups(proc.sent)) <= 1
           /\ \A d \in Downs(proc.sent) :
                  /\ d > 1 /\ proc.sent[d - 1] = <<"mousemove", proc.from>>
                  /\ \A k \in 1..(d - 1) : proc.sent[k][1] = "mousemove"
           /\ \A u \in Ups(proc.sent) :
                  /\ u = Len(proc.sent)
                  /\ proc.sent[u - 1] = <<"mousemove", proc.to>>
                  /\ \E d \in Downs(proc.sent) :
                         \A k \in (d + 1)..(u - 1) : proc.sent[k][1] = "mousemove"

\* C29: a drag sends move to start, button down, move to end, button up in
\* this order, and when it has returned or failed every button down it
\* sent has been followed by a button up.
C29_DragReleasesButton ==
    /\ DragOrder
    /\ (proc.op = "drag" /\ proc.pc \in {"returned", "raised"})
          => \A d \in Downs(proc.sent) : \E u \in Ups(proc.sent) : u > d

\* A drag left with UserInputError from the move to the end point, with
\* the button down.
DragLeavesButtonDown ==
    /\ proc.op = "drag" /\ proc.pc = "raised" /\ proc.raised = "UserInputError"
    /\ ~proc.smooth
    /\ proc.sent = <<<<"mousemove", proc.from>>, <<"mousedown", "1">>>>

\* A drag that returns has released the button.
DragReturnedReleased ==
    (proc.op = "drag" /\ proc.pc = "returned")
        => /\ Cardinality(Downs(proc.sent)) = 1
           /\ proc.sent[Len(proc.sent)] = <<"mouseup", "1">>

\* ------------------------------------------------------------------------
\* Properties of the loops that drive the application
\* ------------------------------------------------------------------------
DrivingLoops == {"close_extra_viewers", "dismiss_all_modals", "dismiss_modal_dialogs"}
LoopEnded == proc.op \in DrivingLoops /\ proc.pc \in {"returned", "raised"}

\* The two loops with an attempt count make at most max_attempts rounds.
RoundsBounded ==
    proc.op \in {"dismiss_all_modals", "dismiss_modal_dialogs"}
        => /\ proc.i <= proc.max_attempts
           /\ proc.dismissed = proc.i
           /\ proc.pc = "returned" => proc.ret = proc.dismissed

\* C30: each of the loops ends, whatever the application does:
\* close_extra_viewers also when the close key leaves the number of
\* viewers as it is, dismiss_all_modals and dismiss_modal_dialogs after at
\* most max_attempts rounds.
C30_LoopsTerminate ==
    /\ []RoundsBounded
    /\ (proc.op \in DrivingLoops) ~> LoopEnded

\* What holds instead: the two loops with an attempt count end.
CountedLoopsTerminate ==
    /\ []RoundsBounded
    /\ (proc.op \in {"dismiss_all_modals", "dismiss_modal_dialogs"}) ~> LoopEnded

\* close_extra_viewers ends when the viewers do not outnumber keep, and
\* only then or with an error.
CloseViewersEndsOnlyWhenFew ==
    (proc.op = "close_extra_viewers" /\ proc.pc = "returned")
        => Len(proc.viewers) <= proc.keep

\* close_extra_viewers in a round where the viewers outnumber keep.
CloseViewersStillClosing ==
    /\ proc.op = "close_extra_viewers" /\ proc.pc = "cmd w"
    /\ proc.keep = 1 /\ Len(proc.viewers) = 2

====
